---- MODULE Spec2Model ----
(***************************************************************************)
(* A model of dazzle's build engine: the orchestrator (Project.Build),     *)
(* the per-chunk test protocol (ProjectChunk.test), the image builds       *)
(* (buildAsBase, buildImage), base-layer subtraction (removeBaseLayer,     *)
(* copyLayer), the registry port (resolverRegistry.Push / Pull) and the    *)
(* combiner (Project.Combine), run by one or two processes against one     *)
(* shared registry.                                                        *)
(***************************************************************************)
EXTENDS Integers, Sequences, FiniteSets, TLC

VARIABLES
    project,     \* the loaded Project: per chunk its tests and how its Dockerfile relates to the base
    tags,        \* registry: tagged reference -> manifest the tag points to
    manifests,   \* registry: <<repository, manifest>> pairs retrievable by digest
    blobs,       \* registry: <<repository, digest>> pairs of config and layer blobs
    pc,          \* per process: the position in Build / test / build / removeBaseLayer / Combine
    sess,        \* per process: the BuildSession (opts, baseRef, baseMF, baseCfg, chunks)
    loc,         \* per process: the local variables of the running call
    cachedHash,  \* per process and chunk: ProjectChunk.cachedHash
    hist,        \* per process: what the current Build has done so far (solver calls, test runs, pushes)
    prev,        \* per process: settings and outcome of the previous finished Build
    budget,      \* per process: Builds and Combines the process may still start
    clock,       \* the latest reading of time.Now()
    input,       \* what a function of the project loader or the combiner is called with
    output       \* what that call has computed so far

\* The build engine and the registry
engine == <<project, tags, manifests, blobs, pc, sess, loc, cachedHash, hist, prev, budget, clock>>

vars == <<project, tags, manifests, blobs, pc, sess, loc, cachedHash, hist, prev, budget, clock,
          input, output>>

-----------------------------------------------------------------------------
(* Bounds *)

\* Builds one process may run one after the other
MaxBuilds == 2
\* Builds each process runs when two processes share the registry
ConcBuilds == 1
\* Combines a process may run
MaxCombines == 1
\* Builds and Combines of the process that combines again and again
BuildsBeforeCombine == 1
Recombines == 2
\* Readings of time.Now() that may repeat the reading before them
SameReadings == 1
\* Tests of one suite handed to RunTests
MaxTests == 2
\* Assertions of one test
MaxAssertions == 2
\* Status updates the solver sends during one solve call
MaxStatuses == 2

Procs == {"p1", "p2"}

-----------------------------------------------------------------------------
(* Values *)

None == <<>>
Some(x) == <<x>>

\* p.Chunks, in project order
ChunkOrder == <<"a", "b">>
ChunkNames == {ChunkOrder[i] : i \in 1..Len(ChunkOrder)}
\* The chunk of the projects two processes build at the same time
OneChunk == <<"a">>

\* How a chunk's Dockerfile relates to the base image it is given as build-arg:
\*  frombase  FROM ${base}, adding one layer
\*  foreign   FROM another image: no layer in common with the base
\*  rebased   shares the base's first layer only
\*  corrupt   layers of the base, but a config whose second diff-ID differs
\*  scratch   an image with no layers at all
ChunkKinds == {"frombase", "foreign", "rebased", "corrupt", "scratch"}

mfAnnotationBaseRef == "dazzle.gitpod.io/base-ref"
mfAnnotationEnvVar == "dazzle.gitpod.io/env-"
mediaTypeTestResult == "application/vnd.gitpod.dazzle.tests.v1+json"
MediaTypeImageConfig == "application/vnd.oci.image.config.v1+json"
MediaTypeImageLayerGzip == "application/vnd.oci.image.layer.v1.tar+gzip"
MediaTypeDockerLayer == "application/vnd.docker.image.rootfs.diff.tar.gzip"

\* p.Config.Combiner.EnvVars when the project configures policies
EnvVarPolicies == {<<"PATH", "merge-unique">>}

\* digest.FromBytes(json.Marshal(x)): content addressing, injective in the content
Digest(x) == <<"sha256", x>>
ContentOf(d) == d[2]

\* The repositories: sess.Dest, and sess.Dest/<name> for chunked-wohash images
MainRepo == "target"
SubRepo(name) == "target/" \o name
CombineRepo == "combined"

\* reference.WithTag / reference.WithDigest
WithTag(repo, tag) == [repo |-> repo, tag |-> tag, dgst |-> None]
WithDigest(ref, d) == [ref EXCEPT !.dgst = Some(d)]
IsDigested(ref) == ref.dgst # None

Drop(s, n) == SubSeq(s, n + 1, Len(s))

-----------------------------------------------------------------------------
(* Images as the solver exports them *)

LayerDesc(l) == [digest |-> Digest([layer |-> l]), mediaType |-> MediaTypeDockerLayer]
\* the diff-ID of a layer blob: the digest of its uncompressed content
DiffID(l) == Digest([tar |-> l])

\* An image config document (ociv1.Image, StoredTestResult): the fields the engine reads
ImageConfig(diffIDs, history) ==
    [diffIDs |-> diffIDs, history |-> history, passed |-> FALSE, created |-> 0, env |-> <<>>]
ConfigDesc(mediaType, cfg) == [mediaType |-> mediaType, digest |-> Digest(cfg)]

Manifest(cfgdesc, layers, annotations) ==
    [config |-> cfgdesc, layers |-> layers, annotations |-> annotations]

Image(layers, diffIDs, history) ==
    Manifest(ConfigDesc(MediaTypeImageConfig, ImageConfig(diffIDs, history)), layers, {})

CfgOf(mf) == ContentOf(mf.config.digest)

\* The image mf with Config.Env = env
WithEnv(mf, env) ==
    Manifest(ConfigDesc(mf.config.mediaType, [CfgOf(mf) EXCEPT !.env = env]),
             mf.layers, mf.annotations)

\* ENV instructions es on top of the env of the image a Dockerfile starts from: an
\* entry replaces the entry of its name
RECURSIVE DockerEnv(_, _)
DockerEnv(env, es) ==
    IF es = <<>> THEN env
    ELSE DockerEnv(IF \E i \in 1..Len(env) : env[i][1] = Head(es)[1]
                   THEN [i \in 1..Len(env) |->
                           IF env[i][1] = Head(es)[1] THEN Head(es) ELSE env[i]]
                   ELSE Append(env, Head(es)),
                   Tail(es))

\* The image the solver builds from base/Dockerfile
BaseImage ==
    WithEnv(Image(<<LayerDesc("base1"), LayerDesc("base2")>>,
                  <<DiffID("base1"), DiffID("base2")>>,
                  <<"base1", "base2">>),
            DockerEnv(<<>>, project.env["base"]))

\* The image the solver builds from a chunk's Dockerfile with build-arg base = the
\* image (basemf, basecfg)
ChunkImage(c, kind, basemf) ==
    LET bcfg == CfgOf(basemf)
        own  == <<LayerDesc(c)>>
        ownD == <<DiffID(c)>>
        ownH == <<c>>
        env  == DockerEnv(IF kind \in {"frombase", "corrupt", "rebased"} THEN bcfg.env ELSE <<>>,
                          project.env[c])
    IN WithEnv(
       CASE kind = "frombase" ->
              Image(basemf.layers \o own, bcfg.diffIDs \o ownD, bcfg.history \o ownH)
         [] kind = "foreign" ->
              Image(<<LayerDesc("other1"), LayerDesc("other2")>> \o own,
                    <<DiffID("other1"), DiffID("other2")>> \o ownD,
                    <<"other1", "other2">> \o ownH)
         [] kind = "rebased" ->
              Image(<<basemf.layers[1], LayerDesc("other2")>> \o own,
                    <<bcfg.diffIDs[1], DiffID("other2")>> \o ownD,
                    <<bcfg.history[1], "other2">> \o ownH)
         [] kind = "corrupt" ->
              Image(basemf.layers \o own,
                    <<bcfg.diffIDs[1], DiffID("other2")>> \o ownD,
                    bcfg.history \o ownH)
         [] OTHER ->
              Image(<<>>, <<>>, <<>>),
       env)

\* The image of another solve of the same Dockerfile when builds do not reproduce:
\* the layer the Dockerfile adds has other content
Rebuilt(mf) ==
    LET n == Len(mf.layers)
        l == ContentOf(mf.layers[n].digest).layer \o "'"
    IN IF n = 0 THEN mf
       ELSE Manifest(ConfigDesc(mf.config.mediaType,
                                [CfgOf(mf) EXCEPT !.diffIDs[n] = DiffID(l)]),
                     [mf.layers EXCEPT ![n] = LayerDesc(l)], mf.annotations)

\* The images a solve of chunk c's Dockerfile may export
SolverImages(c, kind, basemf) ==
    {ChunkImage(c, kind, basemf)}
    \cup (IF project.unstable THEN {Rebuilt(ChunkImage(c, kind, basemf))} ELSE {})

-----------------------------------------------------------------------------
(* The registry as seen through remotes.Resolver, Fetcher and Pusher *)

TagKey(ref) == <<ref.repo, ref.tag>>

\* resolver.Resolve: the manifest a reference names, None when not found
Resolve(ref) ==
    IF IsDigested(ref)
    THEN IF <<ref.repo, ContentOf(ref.dgst[1])>> \in manifests
         THEN Some(ContentOf(ref.dgst[1])) ELSE None
    ELSE IF TagKey(ref) \in DOMAIN tags THEN Some(tags[TagKey(ref)]) ELSE None

HasBlob(repo, d) == <<repo, d>> \in blobs

\* pusher.Push answers AlreadyExists: a blob that is in the repository, a manifest
\* the reference's tag already points to
BlobExists(ref, desc) == HasBlob(ref.repo, desc.digest)
ManifestExists(ref, mf) ==
    /\ TagKey(ref) \in DOMAIN tags
    /\ Digest(tags[TagKey(ref)]) = Digest(mf)

\* The registry after a writer committed a blob / a manifest under a tag
WithBlobs(bs, repo, ds) == bs \cup {<<repo, d>> : d \in ds}
WithManifest(ms, ref, mf) == ms \cup {<<ref.repo, mf>>}
WithTagSet(ts, ref, mf) == (TagKey(ref) :> mf) @@ ts

LayerDigests(mf) == {mf.layers[i].digest : i \in 1..Len(mf.layers)}

-----------------------------------------------------------------------------
(* Fingerprints and image names *)

TestsOf(c) == IF c \in ChunkNames /\ project.tests[c] THEN <<"test of " \o c>> ELSE <<>>

\* yaml.Marshal(p.Tests): "[]" for no tests, else one item per test
MarshalTests(tests) == IF tests = <<>> THEN <<"[]">> ELSE tests

\* The document with the Tests block whatever excludeTests says
manifestWithTests(chk, baseref, excludeTests) ==
    (IF baseref # None THEN <<<<"Baseref: ", baseref[1]>>>> ELSE <<>>)
    \o <<<<"Dockerfile: ", chk.Dockerfile>>, <<"Sources:", chk.Sources>>>>
    \o <<<<"Tests:", MarshalTests(chk.Tests)>>>>

\* The document without the Tests block whatever excludeTests says
manifestWithoutTests(chk, baseref, excludeTests) ==
    (IF baseref # None THEN <<<<"Baseref: ", baseref[1]>>>> ELSE <<>>)
    \o <<<<"Dockerfile: ", chk.Dockerfile>>, <<"Sources:", chk.Sources>>>>

\* ProjectChunk.manifest: the document the fingerprint is computed over, field by
\* field as it is written. baseref is None for the empty string; Sources stands for
\* the path:hash lines of the files under p.ContextPath; the Tests block is written
\* unless excludeTests. Neither p.Name nor p.Args is written.
manifest(chk, baseref, excludeTests) ==
    (IF baseref # None THEN <<<<"Baseref: ", baseref[1]>>>> ELSE <<>>)
    \o <<<<"Dockerfile: ", chk.Dockerfile>>, <<"Sources:", chk.Sources>>>>
    \o (IF excludeTests THEN <<>> ELSE <<<<"Tests:", MarshalTests(chk.Tests)>>>>)

\* The ProjectChunk the engine's project holds for chunk c
LoadedChunk(c) ==
    [Name |-> c, Dockerfile |-> c, Sources |-> <<c>>, Args |-> {}, Tests |-> TestsOf(c)]

\* ProjectChunk.manifest of the project's chunk c
ChunkManifest(c, baseref, excludeTests) == manifest(LoadedChunk(c), baseref, excludeTests)

Slot(excludeTests) == IF excludeTests THEN "ExcludeTests" ELSE "WithTests"

\* ProjectChunk.hash: the memoized slot if set, else the keyed hash of the manifest
hash(ch, c, baseref, excludeTests) ==
    IF ch[c][Slot(excludeTests)] # None
    THEN ch[c][Slot(excludeTests)][1]
    ELSE Digest(ChunkManifest(c, baseref, excludeTests))

\* ProjectChunk.hash of a chunk just loaded, its cachedHash being empty
hashLoaded(chk, baseref, excludeTests) == Digest(manifest(chk, baseref, excludeTests))

\* cachedHash after the call hash(p, c, baseref, excludeTests)
Memoized(ch, c, baseref, excludeTests) ==
    [ch EXCEPT ![c][Slot(excludeTests)] = Some(hash(ch, c, baseref, excludeTests))]

NoCachedHash == [c \in ChunkNames \cup {"base"} |-> [ExcludeTests |-> None, WithTests |-> None]]

ImageTypeTest == "test"
ImageTypeFull == "full"
ImageTypeChunked == "chunked"
ImageTypeChunkedNoHash == "chunked-wohash"
imageTypeTestResult == "test-result"

ExcludesTests(tpe) == ~(tpe = ImageTypeTest \/ tpe = imageTypeTestResult)

\* ProjectChunk.ImageName (sess.baseRef is set wherever the model calls it)
ImageName(p, c, tpe) ==
    IF tpe = ImageTypeChunkedNoHash
    THEN WithTag(SubRepo(c), <<"latest">>)
    ELSE WithTag(MainRepo,
                 <<c, hash(cachedHash[p], c, sess[p].baseRef, ExcludesTests(tpe)), tpe>>)

\* cachedHash after ImageName(p, c, tpe)
AfterImageName(p, c, tpe) ==
    IF tpe = ImageTypeChunkedNoHash THEN cachedHash
    ELSE [cachedHash EXCEPT
            ![p] = Memoized(@, c, sess[p].baseRef, ExcludesTests(tpe))]

\* Project.BaseRef
BaseRef(ch) == WithTag(MainRepo, <<"base", hash(ch, "base", None, TRUE)>>)

-----------------------------------------------------------------------------
(* Loading chunks *)

\* A chunk directory as loadChunks reads it:
\*  Dockerfiles  file name -> content
\*  Sources      the files under the chunk's context path, as path:hash lines
\*  Tests        chunk name -> tests/<name>.yaml, for the chunks that have the file
\*  Variants     the variants of chunk.yaml, None when there is no chunk.yaml
ChunkVariant(name, args, dockerfile) == [Name |-> name, Args |-> args, Dockerfile |-> dockerfile]

\* loadChunks, lines 289-324: load(name, v)
load(dir, name, v) ==
    [Name |-> name,
     Args |-> v.Args,
     Dockerfile |-> dir.Dockerfiles[IF v.Dockerfile # "" THEN v.Dockerfile ELSE "Dockerfile"],
     Sources |-> dir.Sources,
     Tests |-> IF name \in DOMAIN dir.Tests THEN dir.Tests[name] ELSE <<>>]

\* loadChunks: one chunk per variant, named <name>:<variant>, or the chunk itself
loadChunks(dir, name) ==
    IF dir.Variants # None
    THEN [i \in 1..Len(dir.Variants[1]) |->
            [load(dir, name, dir.Variants[1][i]) EXCEPT
                !.Name = name \o ":" \o dir.Variants[1][i].Name]]
    ELSE <<load(dir, name, ChunkVariant("", {}, ""))>>

-----------------------------------------------------------------------------
(* Sessions, locals, history *)

NoErr == <<"", "", 0>>
Err(kind, what, i) == <<kind, what, i>>

NoSession ==
    [init |-> FALSE, noHash |-> FALSE, envOn |-> FALSE, envVars |-> {}, noTests |-> FALSE,
     noCache |-> FALSE, baseRef |-> None, baseMF |-> None, baseCfg |-> None, chunks |-> <<>>]

\* NewSession(cl, target, WithChunkedWithoutHash(noHash)) for a project whose
\* dazzle.yaml configures env-var policies iff envOn
NewSession(noHash, envOn) ==
    [NoSession EXCEPT !.init = TRUE, !.noHash = noHash, !.envOn = envOn]

Loc0 ==
    [i |-> 0, baseref |-> None, absbaseref |-> None, basemf |-> None,
     resultRef |-> None, testRef |-> None, fullRef |-> None, chkRef |-> None,
     chkmf |-> None, l |-> 0, push |-> None, didBuild |-> FALSE,
     tpe |-> "", tgt |-> None, full |-> None,
     picks |-> <<>>, dest |-> None, mfs |-> <<>>, temp |-> FALSE, runTests |-> FALSE,
     dest0 |-> None]

\* What the last finished removeBaseLayer call was given and what it returned
NoCall ==
    [chunk |-> "", baseref |-> None, basemf |-> None, full |-> None, dest |-> None,
     returned |-> None, didbuild |-> FALSE, err |-> NoErr]

\* What the last finished Registry.Push call was answered by the pusher and returned
NoPushReturn == [called |-> FALSE, ae |-> {}, err |-> "", aref |-> None]

\* What the last finished Combine call was given, what it pulled and what it pushed
NoCombine ==
    [returned |-> FALSE, err |-> NoErr, picks |-> <<>>, dest |-> None, mfs |-> <<>>,
     mf |-> None, temp |-> FALSE, dest0 |-> None]

Hist0 ==
    [ops |-> <<>>, tags0 |-> {}, didRun |-> {}, testsFailed |-> {}, didBuild |-> {},
     rbl |-> NoCall,
     rerun |-> FALSE, retryOf |-> "", pushret |-> NoPushReturn, cmb |-> NoCombine,
     lastcmb |-> NoCombine, withNoTests |-> FALSE, resolveErr |-> {}]

Prev0 ==
    [status |-> "none", err |-> NoErr, chunk |-> "", noHash |-> FALSE, envOn |-> FALSE,
     ops |-> <<>>, newTags |-> {}, didRun |-> {}, didBuild |-> {}, rerun |-> FALSE,
     retryOf |-> ""]

Op(kind, what, c) == <<kind, what, c>>
Logged(p, op) == [hist EXCEPT ![p].ops = Append(@, op)]
OpsOf(ops) == {ops[i] : i \in 1..Len(ops)}

\* The chunks taken from the last to the first
lastChunkFirst(p) == project.chunks[Len(project.chunks) + 1 - loc[p].i]

CurChunk(p) == project.chunks[loc[p].i]

-----------------------------------------------------------------------------
(* Initial states *)

\* The chunk lists Combine is called with: project chunks in either order, a chunk
\* twice, a name the project does not have
CombinePicks == {<<"a">>, <<"a", "b">>, <<"b", "a">>, <<"a", "a">>, <<"zz">>}

\* chunks: p.Chunks; kind, tests: their Dockerfiles and whether they have tests; outcomes: what
\* running the tests can answer; opts: the options every run is started with, None
\* when each run is started with options of its own
Projects ==
    [chunks : {ChunkOrder}, kind : [ChunkNames -> ChunkKinds],
     tests : [ChunkNames -> BOOLEAN], outcomes : {{TRUE, FALSE}}, opts : {None},
     picks : {CombinePicks}, env : {[n \in {"base"} \cup ChunkNames |-> <<>>]},
     withNoTests : {{FALSE}}, envVars : {{EnvVarPolicies}},
     resolveErrs : {{}}, unstable : {FALSE}]

\* Projects that build when built alone, started by two runs with the same options
ConcProjects ==
    [chunks : {OneChunk}, kind : {[c \in ChunkNames |-> "frombase"]},
     tests : {[c \in ChunkNames |-> t] : t \in BOOLEAN}, outcomes : {{TRUE}},
     opts : {Some([noHash |-> n, envOn |-> e]) : n \in BOOLEAN, e \in BOOLEAN},
     picks : {CombinePicks}, env : {[n \in {"base"} \cup ChunkNames |-> <<>>]},
     withNoTests : {{FALSE}}, envVars : {{EnvVarPolicies}},
     resolveErrs : {{}}, unstable : {FALSE}]

InitCommon ==
    /\ tags = <<>>
    /\ manifests = {}
    /\ blobs = {}
    /\ pc = [p \in Procs |-> "idle"]
    /\ sess = [p \in Procs |-> NoSession]
    /\ loc = [p \in Procs |-> Loc0]
    /\ cachedHash = [p \in Procs |-> NoCachedHash]
    /\ hist = [p \in Procs |-> Hist0]
    /\ prev = [p \in Procs |-> Prev0]
    /\ clock = 0

\* One process building (and combining) again and again
Init ==
    /\ InitCommon
    /\ input = None
    /\ output = None
    /\ project \in Projects
    /\ budget = [p \in Procs |->
                    IF p = "p1" THEN [builds |-> MaxBuilds, combines |-> MaxCombines,
                                      repeats |-> 0]
                    ELSE [builds |-> 0, combines |-> 0, repeats |-> 0]]

\* The ENV instructions of the Dockerfiles: none, well-formed ones, an entry without
\* "=" in the base, an entry with two "=" in a chunk
CombineEnvs ==
    {[n \in {"base"} \cup ChunkNames |-> <<>>],
     [n \in {"base"} \cup ChunkNames |->
        IF n = "base" THEN <<<<"PATH", <<"first">>>>>>
        ELSE IF n = "a" THEN <<<<"PATH", <<"second">>>>, <<"HOME", <<"/root">>>>>>
        ELSE <<>>],
     [n \in {"base"} \cup ChunkNames |-> IF n = "base" THEN <<<<"BROKEN">>>> ELSE <<>>],
     [n \in {"base"} \cup ChunkNames |->
        IF n = "b" THEN <<<<"OPTS", <<"x">>, <<"y">>>>>> ELSE <<>>]}

\* Projects whose chunks build, built with the default options and then combined
\* again and again, each time with the same chunk list
CombineProjects ==
    [chunks : {ChunkOrder}, kind : {[c \in ChunkNames |-> "frombase"]},
     tests : [ChunkNames -> BOOLEAN], outcomes : {{TRUE, FALSE}},
     opts : {Some([noHash |-> FALSE, envOn |-> FALSE])},
     picks : {{<<"a">>}, {<<"a", "b">>}, {<<"b", "a">>}},
     env : {[n \in {"base"} \cup ChunkNames |-> <<>>]}, withNoTests : {{FALSE}}, envVars : {{EnvVarPolicies}},
     resolveErrs : {{}}, unstable : {FALSE}]

CombineInit ==
    /\ InitCommon
    /\ input = None
    /\ output = None
    /\ project \in CombineProjects
    /\ budget = [p \in Procs |->
                    IF p = "p1" THEN [builds |-> BuildsBeforeCombine, combines |-> Recombines,
                                      repeats |-> SameReadings]
                    ELSE [builds |-> 0, combines |-> 0, repeats |-> 0]]

\* Projects without tests whose images set environment variables, built and then
\* combined again and again
EnvProjects ==
    [chunks : {ChunkOrder}, kind : {[c \in ChunkNames |-> "frombase"]},
     tests : {[c \in ChunkNames |-> FALSE]}, outcomes : {{TRUE}},
     opts : {Some([noHash |-> FALSE, envOn |-> FALSE])},
     picks : {{<<"a">>}, {<<"a", "b">>}, {<<"b", "a">>}},
     env : CombineEnvs, withNoTests : {{FALSE}}, envVars : {{EnvVarPolicies}},
     resolveErrs : {{}}, unstable : {FALSE}]

EnvInit ==
    /\ InitCommon
    /\ input = None
    /\ output = None
    /\ project \in EnvProjects
    /\ budget = [p \in Procs |->
                    IF p = "p1" THEN [builds |-> BuildsBeforeCombine, combines |-> Recombines,
                                      repeats |-> SameReadings]
                    ELSE [builds |-> 0, combines |-> 0, repeats |-> 0]]

\* Projects whose chunks build, built by runs that may ask for no tests
NoTestsProjects ==
    [chunks : {ChunkOrder}, kind : {[c \in ChunkNames |-> "frombase"]},
     tests : [ChunkNames -> BOOLEAN], outcomes : {{TRUE, FALSE}}, opts : {None},
     picks : {CombinePicks}, env : {[n \in {"base"} \cup ChunkNames |-> <<>>]},
     withNoTests : {BOOLEAN}, envVars : {{EnvVarPolicies}},
     resolveErrs : {{}}, unstable : {FALSE}]

NoTestsInit ==
    /\ InitCommon
    /\ input = None
    /\ output = None
    /\ project \in NoTestsProjects
    /\ budget = [p \in Procs |->
                    IF p = "p1" THEN [builds |-> MaxBuilds, combines |-> 0, repeats |-> 0]
                    ELSE [builds |-> 0, combines |-> 0, repeats |-> 0]]

\* A project of one chunk without tests, built by two runs with the same options
CopyProjects ==
    [chunks : {OneChunk}, kind : {[c \in ChunkNames |-> "frombase"]},
     tests : {[c \in ChunkNames |-> FALSE]}, outcomes : {{TRUE}},
     opts : {Some([noHash |-> n, envOn |-> FALSE]) : n \in BOOLEAN},
     picks : {CombinePicks}, env : {[n \in {"base"} \cup ChunkNames |-> <<>>]},
     withNoTests : {{FALSE}}, envVars : {{EnvVarPolicies}},
     resolveErrs : {{}}, unstable : {FALSE}]

CopyInit ==
    /\ InitCommon
    /\ input = None
    /\ output = None
    /\ project \in CopyProjects
    /\ budget = [p \in Procs |-> [builds |-> ConcBuilds, combines |-> 0, repeats |-> 0]]

\* p.Config.Combiner.EnvVars of the dazzle.yaml a run loads
PolicySets ==
    {{<<"PATH", "merge-unique">>},
     {<<"PATH", "merge">>, <<"HOME", "use-last">>},
     {<<"HOME", "use-first">>}}

\* A project of one chunk without tests; every run loads a dazzle.yaml of its own
RewriteProjects ==
    [chunks : {OneChunk}, kind : {[c \in ChunkNames |-> "frombase"]},
     tests : {[c \in ChunkNames |-> FALSE]}, outcomes : {{TRUE}}, opts : {None},
     picks : {CombinePicks}, env : {[n \in {"base"} \cup ChunkNames |-> <<>>]},
     withNoTests : {{FALSE}}, envVars : {PolicySets},
     resolveErrs : {{}}, unstable : {FALSE}]

RewriteInit ==
    /\ InitCommon
    /\ input = None
    /\ output = None
    /\ project \in RewriteProjects
    /\ budget = [p \in Procs |->
                    IF p = "p1" THEN [builds |-> MaxBuilds, combines |-> 0, repeats |-> 0]
                    ELSE [builds |-> 0, combines |-> 0, repeats |-> 0]]

\* A project of one chunk whose registry may refuse a Resolve with Unauthorized
DeniedProjects ==
    [chunks : {OneChunk}, kind : {[c \in ChunkNames |-> "frombase"]},
     tests : [ChunkNames -> BOOLEAN], outcomes : {{TRUE}}, opts : {None},
     picks : {CombinePicks}, env : {[n \in {"base"} \cup ChunkNames |-> <<>>]},
     withNoTests : {{FALSE}}, envVars : {{EnvVarPolicies}},
     resolveErrs : {{"Unauthorized"}}, unstable : {FALSE}]

DeniedInit ==
    /\ InitCommon
    /\ input = None
    /\ output = None
    /\ project \in DeniedProjects
    /\ budget = [p \in Procs |->
                    IF p = "p1" THEN [builds |-> MaxBuilds, combines |-> 0, repeats |-> 0]
                    ELSE [builds |-> 0, combines |-> 0, repeats |-> 0]]

\* A project of one chunk without tests whose builds do not reproduce, on a registry
\* that may answer a Resolve with an error
RaceProjects ==
    [chunks : {OneChunk}, kind : {[c \in ChunkNames |-> "frombase"]},
     tests : {[c \in ChunkNames |-> FALSE]}, outcomes : {{TRUE}},
     opts : {Some([noHash |-> FALSE, envOn |-> FALSE])},
     picks : {{<<"a">>}}, env : {[n \in {"base"} \cup ChunkNames |-> <<>>]},
     withNoTests : {{FALSE}}, envVars : {{EnvVarPolicies}},
     resolveErrs : {{"Unavailable"}}, unstable : {TRUE}]

\* One process combines while the other builds again and again
RaceInit ==
    /\ InitCommon
    /\ input = None
    /\ output = None
    /\ project \in RaceProjects
    /\ budget = [p \in Procs |->
                    IF p = "p1" THEN [builds |-> 0, combines |-> MaxCombines, repeats |-> 0]
                    ELSE [builds |-> MaxBuilds, combines |-> 0, repeats |-> 0]]

\* Two processes, each building once, against the same registry
ConcInit ==
    /\ InitCommon
    /\ input = None
    /\ output = None
    /\ project \in ConcProjects
    /\ budget = [p \in Procs |-> [builds |-> ConcBuilds, combines |-> 0, repeats |-> 0]]

-----------------------------------------------------------------------------
(* How a Build ends *)

\* Build returns err: the process is back at its caller
BuildFails(p, err, h, ts) ==
    /\ pc' = [pc EXCEPT ![p] = "idle"]
    /\ prev' = [prev EXCEPT ![p] =
                  [status |-> "failed", err |-> err,
                   chunk |-> IF loc[p].i = 0 THEN "base" ELSE CurChunk(p),
                   noHash |-> sess[p].noHash, envOn |-> sess[p].envOn,
                   ops |-> h[p].ops, newTags |-> (DOMAIN ts) \ h[p].tags0,
                   didRun |-> h[p].didRun, didBuild |-> h[p].didBuild,
                   rerun |-> h[p].rerun, retryOf |-> h[p].retryOf]]
    /\ loc' = [loc EXCEPT ![p] = Loc0]
    /\ hist' = h

\* Build returns nil
BuildSucceeds(p, h, ts) ==
    /\ pc' = [pc EXCEPT ![p] = "idle"]
    /\ prev' = [prev EXCEPT ![p] =
                  [status |-> "ok", err |-> NoErr, chunk |-> "",
                   noHash |-> sess[p].noHash, envOn |-> sess[p].envOn,
                   ops |-> h[p].ops, newTags |-> (DOMAIN ts) \ h[p].tags0,
                   didRun |-> h[p].didRun, didBuild |-> h[p].didBuild,
                   rerun |-> h[p].rerun, retryOf |-> h[p].retryOf]]
    /\ loc' = [loc EXCEPT ![p] = Loc0]
    /\ hist' = h

-----------------------------------------------------------------------------
(* Registry reads and solver exports *)

\* resolverRegistry.Pull / getImageMetadata: the manifest, its config document and
\* the digested reference
Pull(ref) ==
    LET r == Resolve(ref)
    IN IF r = None \/ (r # None /\ ~HasBlob(ref.repo, r[1].config.digest))
       THEN [err |-> "NotFound", mf |-> None, absref |-> None]
       ELSE [err |-> "", mf |-> r,
             absref |-> Some(IF IsDigested(ref) THEN ref ELSE WithDigest(ref, Digest(r[1])))]

\* The solver exports an image with push=true under name ref
Exported(ref, mf) ==
    /\ blobs' = WithBlobs(blobs, ref.repo, LayerDigests(mf) \cup {mf.config.digest})
    /\ manifests' = WithManifest(manifests, ref, mf)
    /\ tags' = WithTagSet(tags, ref, mf)

RegistryUnchanged == UNCHANGED <<tags, manifests, blobs>>

-----------------------------------------------------------------------------
(* Project.Build: the base image *)

\* WithNoTests(enable) applied to the options of a session
WithNoTests(s, enable) == [s EXCEPT !.noCache = enable]

\* The ledger holds the chunk recorded last
recordOnlyLast(s, name, mf) == [s EXCEPT !.chunks = (name :> mf)]

\* s.recordChunk: s.chunks[name] = mf
recordChunk(s, name, mf) == [s EXCEPT !.chunks = (name :> mf) @@ @]

\* s.baseBuildFinished
baseBuildFinished(s, ref, mf) ==
    [s EXCEPT !.baseRef = Some(ref), !.baseMF = Some(mf), !.baseCfg = Some(CfgOf(mf))]

\* Build is called: a new project load and session, or the loaded project and
\* session again; BaseRef; buildAsBase resolves the base tag
Build(p) ==
    /\ pc[p] = "idle"
    /\ budget[p].builds > 0
    /\ \E reuse \in BOOLEAN, noHash \in BOOLEAN, envOn \in BOOLEAN,
          noTests \in project.withNoTests, envVars \in project.envVars,
          rerr \in {""} \cup project.resolveErrs :
         /\ reuse => sess[p].init /\ noHash = sess[p].noHash /\ envOn = sess[p].envOn
         /\ reuse => noTests = hist[p].withNoTests
         /\ project.opts # None =>
                noHash = project.opts[1].noHash /\ envOn = project.opts[1].envOn
         /\ LET ch0 == IF reuse THEN cachedHash[p] ELSE NoCachedHash
                baseref == BaseRef(ch0)
                found == IF rerr = "" THEN Resolve(baseref) ELSE None
                same == prev[p].noHash = noHash /\ prev[p].envOn = envOn
            IN /\ sess' = [sess EXCEPT ![p] =
                               IF reuse THEN @
                               ELSE [WithNoTests(NewSession(noHash, envOn), noTests)
                                       EXCEPT !.envVars = IF envOn THEN envVars ELSE {}]]
               /\ cachedHash' = [cachedHash EXCEPT ![p] = Memoized(ch0, "base", None, TRUE)]
               /\ hist' = [hist EXCEPT ![p] =
                             [Hist0 EXCEPT !.tags0 = DOMAIN tags,
                                           !.withNoTests = noTests,
                                           !.resolveErr =
                                              IF rerr = "" THEN {}
                                              ELSE {<<"base", "base", rerr>>},
                                           !.rerun = (prev[p].status = "ok" /\ same),
                                           !.retryOf = IF prev[p].status = "failed" /\ same
                                                          /\ prev[p].err[1] = "TestsFailed"
                                                       THEN prev[p].chunk ELSE ""]]
               /\ loc' = [loc EXCEPT ![p] =
                            [Loc0 EXCEPT !.baseref = Some(baseref),
                                         !.absbaseref =
                                            IF found = None THEN None
                                            ELSE Some(WithDigest(baseref, Digest(found[1])))]]
               /\ pc' = [pc EXCEPT ![p] = IF found = None THEN "buildAsBase" ELSE "Build_base"]
    /\ budget' = [budget EXCEPT ![p].builds = @ - 1]
    /\ UNCHANGED <<clock, project, tags, manifests, blobs, prev>>

\* buildAsBase: the base tag did not resolve, the solver builds and pushes the base
buildAsBase(p) ==
    /\ pc[p] = "buildAsBase"
    /\ LET dest == loc[p].baseref[1]
       IN /\ Exported(dest, BaseImage)
          /\ loc' = [loc EXCEPT ![p].absbaseref = Some(WithDigest(dest, Digest(BaseImage)))]
    /\ hist' = Logged(p, Op("solve", "base", "base"))
    /\ pc' = [pc EXCEPT ![p] = "Build_base"]
    /\ UNCHANGED <<clock, project, sess, cachedHash, prev, budget>>

\* basemf with the env-var policies as its annotations
WithEnvAnnotations(mf, envVars) ==
    [mf EXCEPT !.annotations =
        {<<mfAnnotationEnvVar \o e[1], Some(e[2])>> : e \in envVars}]

\* Build after buildAsBase: getImageMetadata of the base; with chunked-without-hash and
\* env-var policies the manifest is rewritten and pushed, else the base is recorded
Build_base(p) ==
    /\ pc[p] = "Build_base"
    /\ LET got == Pull(loc[p].absbaseref[1])
       IN IF got.err # ""
          THEN /\ BuildFails(p, Err(got.err, "base", 0), hist, tags)
               /\ UNCHANGED sess
          ELSE IF sess[p].noHash /\ sess[p].envOn
          THEN /\ loc' = [loc EXCEPT ![p].basemf = Some(WithEnvAnnotations(got.mf[1], sess[p].envVars)),
                                     ![p].push = Some([ref |-> loc[p].baseref[1],
                                                       mf |-> WithEnvAnnotations(got.mf[1], sess[p].envVars),
                                                       ae |-> {},
                                                       ret |-> "Build"])]
               /\ pc' = [pc EXCEPT ![p] = "Push_manifest"]
               /\ UNCHANGED <<sess, hist, prev>>
          ELSE /\ sess' = [sess EXCEPT ![p] =
                              baseBuildFinished(@, loc[p].absbaseref[1], got.mf[1])]
               /\ loc' = [loc EXCEPT ![p].i = 1]
               /\ pc' = [pc EXCEPT ![p] = "test"]
               /\ UNCHANGED <<hist, prev>>
    /\ UNCHANGED <<clock, project, tags, manifests, blobs, cachedHash, budget>>

-----------------------------------------------------------------------------
(* resolverRegistry.Push *)

StoredTestResult(passed) ==
    [diffIDs |-> <<>>, history |-> <<>>, passed |-> passed, created |-> 0, env |-> <<>>]

\* storeInRegistryOptions without a Manifest: the synthesized schemaVersion-2 manifest
SynthesizedManifest(mediaType, cfg) == Manifest(ConfigDesc(mediaType, cfg), <<>>, {})

\* What a writer's Commit may answer: AlreadyExists only when the content is there
CommitAnswers(exists) == IF exists THEN {"", "AlreadyExists"} ELSE {""}

IsAlreadyExists(err) == err = "AlreadyExists"

\* Push returns (aref, err) to its caller, which goes on:
\*  Build: errors other than AlreadyExists abort; aref, when not nil, becomes the base ref
\*  test:  errors other than AlreadyExists abort; test returns and build begins
PushReturned(h, p, aref, err, ae) ==
    [h EXCEPT ![p].pushret = [called |-> TRUE, ae |-> ae, err |-> err, aref |-> aref]]

PushReturns(p, aref, err, ae, h0, ts) ==
    LET h == PushReturned(h0, p, aref, err, ae)
    IN
    IF err # "" /\ ~IsAlreadyExists(err)
    THEN /\ BuildFails(p, Err(err, "push", 0), h, ts)
         /\ UNCHANGED sess
    ELSE IF loc[p].push[1].ret = "Build"
    THEN /\ sess' = [sess EXCEPT ![p] =
                        baseBuildFinished(@, IF aref # None THEN aref[1]
                                             ELSE loc[p].absbaseref[1],
                                          loc[p].basemf[1])]
         /\ loc' = [loc EXCEPT ![p].i = 1, ![p].push = None,
                               ![p].absbaseref = IF aref # None THEN aref ELSE @]
         /\ pc' = [pc EXCEPT ![p] = "test"]
         /\ hist' = h
         /\ UNCHANGED prev
    ELSE /\ loc' = [loc EXCEPT ![p].push = None]
         /\ pc' = [pc EXCEPT ![p] = "buildImage"]
         /\ hist' = h
         /\ UNCHANGED <<sess, prev>>

PushOwner(p) == IF loc[p].i = 0 THEN "base" ELSE CurChunk(p)

\* Push, lines 130-150: pusher.Push of the config blob; AlreadyExists is skipped over
Push_config(p) ==
    /\ pc[p] = "Push_config"
    /\ LET call == loc[p].push[1]
       IN IF BlobExists(call.ref, call.mf.config)
          THEN /\ pc' = [pc EXCEPT ![p] = "Push_manifest"]
               /\ loc' = [loc EXCEPT ![p].push[1].ae = @ \cup {"config"}]
          ELSE /\ pc' = [pc EXCEPT ![p] = "Push_configCommit"]
               /\ UNCHANGED loc
    /\ UNCHANGED <<clock, project, tags, manifests, blobs, sess, cachedHash, hist, prev, budget>>

\* Push, lines 133-146: Write and Commit of the config blob; any error is returned
Push_configCommit(p) ==
    /\ pc[p] = "Push_configCommit"
    /\ LET call == loc[p].push[1]
       IN \E answer \in CommitAnswers(BlobExists(call.ref, call.mf.config)) :
            IF answer = ""
            THEN /\ blobs' = WithBlobs(blobs, call.ref.repo, {call.mf.config.digest})
                 /\ pc' = [pc EXCEPT ![p] = "Push_manifest"]
                 /\ hist' = Logged(p, Op("commit", "config", PushOwner(p)))
                 /\ UNCHANGED <<tags, manifests, sess, loc, prev>>
            ELSE /\ PushReturns(p, None, answer, call.ae \cup {"config"}, hist, tags)
                 /\ UNCHANGED <<tags, manifests, blobs>>
    /\ UNCHANGED <<clock, project, cachedHash, budget>>

\* Push, lines 152-155: pusher.Push of the manifest; every error is returned
Push_manifest(p) ==
    /\ pc[p] = "Push_manifest"
    /\ LET call == loc[p].push[1]
       IN IF ManifestExists(call.ref, call.mf)
          THEN PushReturns(p, None, "AlreadyExists", call.ae \cup {"manifest"}, hist, tags)
          ELSE /\ pc' = [pc EXCEPT ![p] = "Push_manifestCommit"]
               /\ UNCHANGED <<sess, loc, hist, prev>>
    /\ UNCHANGED <<clock, project, tags, manifests, blobs, cachedHash, budget>>

\* Push, lines 156-180: Write and Commit of the manifest, then the digested reference
Push_manifestCommit(p) ==
    /\ pc[p] = "Push_manifestCommit"
    /\ LET call == loc[p].push[1]
       IN \E answer \in CommitAnswers(ManifestExists(call.ref, call.mf)) :
            IF answer = ""
            THEN /\ manifests' = WithManifest(manifests, call.ref, call.mf)
                 /\ tags' = WithTagSet(tags, call.ref, call.mf)
                 /\ PushReturns(p, Some(WithDigest(call.ref, Digest(call.mf))), "", call.ae,
                                Logged(p, Op("commit", "manifest", PushOwner(p))),
                                WithTagSet(tags, call.ref, call.mf))
            ELSE /\ PushReturns(p, None, answer, call.ae \cup {"manifest"}, hist, tags)
                 /\ UNCHANGED <<tags, manifests>>
    /\ UNCHANGED <<clock, project, blobs, cachedHash, budget>>

-----------------------------------------------------------------------------
(* ProjectChunk.test and ProjectChunk.buildImage *)

\* A stored test result that is never taken for passed
testResultIgnored(r) == FALSE

\* test, lines 561-568: r is what pullTestResult answered; a missing result is no
\* error, a present one counts when it says passed
testResultPassed(r) == r.err = "" /\ CfgOf(r.mf[1]).passed

\* test, lines 549-568: no tests to run, or the stored test result says passed:
\* return (true, false, nil), and Build calls build; else the test image is built
test(p) ==
    /\ pc[p] = "test"
    /\ LET c == CurChunk(p)
           resultRef == ImageName(p, c, imageTypeTestResult)
           r == Pull(resultRef)
       IN IF sess[p].noTests \/ Len(TestsOf(c)) = 0
          THEN /\ loc' = [loc EXCEPT ![p].tpe = ImageTypeFull]
               /\ UNCHANGED cachedHash
          ELSE /\ cachedHash' = AfterImageName(p, c, imageTypeTestResult)
               /\ IF testResultPassed(r)
                  THEN loc' = [loc EXCEPT ![p].tpe = ImageTypeFull]
                  ELSE loc' = [loc EXCEPT ![p].tpe = ImageTypeTest,
                                          ![p].resultRef = Some(resultRef)]
    /\ pc' = [pc EXCEPT ![p] = "buildImage"]
    /\ UNCHANGED <<clock, project, tags, manifests, blobs, sess, hist, prev, budget>>

\* Where buildImage returns to: test (lines 571-575) or build (lines 599-602)
AfterBuildImage(tpe) == IF tpe = ImageTypeTest THEN "test_run" ELSE "removeBaseLayer"

\* A test image that resolves is taken for tested
SkipTestsWhenFound(tpe) == "removeBaseLayer"

\* buildImage, lines 631-635: an image that resolves is returned to the caller like
\* one that was built
AfterFound(tpe) == AfterBuildImage(tpe)

\* buildImage, lines 625-635: the image name is resolved; an image that resolves is
\* returned under its tag, and every error of Resolve goes on to the solver
buildImage(p) ==
    /\ pc[p] = "buildImage"
    /\ LET c == CurChunk(p)
           tpe == loc[p].tpe
           tgt == ImageName(p, c, tpe)
       IN /\ cachedHash' = AfterImageName(p, c, tpe)
          /\ \E rerr \in {""} \cup project.resolveErrs :
                IF rerr = "" /\ Resolve(tgt) # None
                THEN /\ loc' = [loc EXCEPT ![p].tgt = Some(tgt)]
                     /\ pc' = [pc EXCEPT ![p] = AfterFound(tpe)]
                     /\ UNCHANGED hist
                ELSE /\ loc' = [loc EXCEPT ![p].tgt = None]
                     /\ pc' = [pc EXCEPT ![p] = "buildImage_solve"]
                     /\ hist' = IF rerr = "" THEN hist
                                ELSE [hist EXCEPT ![p].resolveErr = @ \cup {<<tpe, c, rerr>>}]
    /\ UNCHANGED <<clock, project, tags, manifests, blobs, sess, prev, budget>>

\* buildImage, lines 637-730: the solver builds the image with build-arg base =
\* sess.baseRef, pushes it under the image name and answers its digest
buildImage_solve(p) ==
    /\ pc[p] = "buildImage_solve"
    /\ LET c == CurChunk(p)
           tpe == loc[p].tpe
           tgt == ImageName(p, c, tpe)
           base == Resolve(sess[p].baseRef[1])
       IN IF base = None
          THEN /\ BuildFails(p, Err("BuildFailed", c, 0),
                             Logged(p, Op("solve", tpe, c)), tags)
               /\ RegistryUnchanged
          ELSE \E img \in SolverImages(c, project.kind[c], base[1]) :
               /\ Exported(tgt, img)
               /\ loc' = [loc EXCEPT ![p].tgt = Some(WithDigest(tgt, Digest(img)))]
               /\ hist' = Logged(p, Op("solve", tpe, c))
               /\ pc' = [pc EXCEPT ![p] = AfterBuildImage(tpe)]
               /\ UNCHANGED prev
    /\ UNCHANGED <<clock, project, sess, cachedHash, budget>>

\* Failed tests taken for passed
testsAlwaysOk(ok) == TRUE

\* test, lines 581-584: what test makes of the ok that RunTests answered
testsOk(ok) == ok

\* test, lines 576-595: the test image's metadata is pulled and the tests run;
\* failed tests abort the build, passed tests are stored as the test result
test_run(p) ==
    /\ pc[p] = "test_run"
    /\ LET c == CurChunk(p)
           testRef == loc[p].tgt[1]
           got == Pull(testRef)
           ran(ok) == [Logged(p, Op("runtests", ImageTypeTest, c)) EXCEPT
                         ![p].didRun = @ \cup {c},
                         ![p].testsFailed = IF ok THEN @ ELSE @ \cup {c}]
       IN IF got.err # ""
          THEN BuildFails(p, Err(got.err, c, 0), hist, tags)
          ELSE \E ok \in project.outcomes :
                 IF ~testsOk(ok)
                 THEN BuildFails(p, Err("TestsFailed", c, 0), ran(ok), tags)
                 ELSE /\ loc' = [loc EXCEPT
                                   ![p].tpe = ImageTypeFull,
                                   ![p].push =
                                      Some([ref |-> loc[p].resultRef[1],
                                            mf |-> SynthesizedManifest(mediaTypeTestResult,
                                                                       StoredTestResult(TRUE)),
                                            ae |-> {},
                                            ret |-> "test"])]
                      /\ hist' = ran(ok)
                      /\ pc' = [pc EXCEPT ![p] = "Push_config"]
                      /\ UNCHANGED prev
    /\ UNCHANGED <<clock, project, tags, manifests, blobs, sess, cachedHash, budget>>

-----------------------------------------------------------------------------
(* removeBaseLayer and copyLayer *)

\* removeBaseLayer, lines 289-312: iteration i (from 0) of the loop over the base's
\* layers; bl, bd are the base's layers and diff-IDs, cl, cd the chunk's. Indexing a
\* list at or past its length panics.
RECURSIVE baseLayerCheck(_, _, _, _, _)
baseLayerCheck(i, bl, bd, cl, cd) ==
    IF i >= Len(bl) THEN NoErr
    ELSE IF Len(cl) < i THEN Err("NotBuiltFromBase", "too few layers", i)
    ELSE IF Len(cd) < i THEN Err("NotBuiltFromBase", "too few diffIDs", i)
    ELSE IF i >= Len(bd) \/ i >= Len(cl) \/ i >= Len(cd)
         THEN Err("panic", "index out of range", i)
    ELSE IF bl[i + 1].digest # cl[i + 1].digest THEN Err("NotBuiltFromBase", "layer", i)
    ELSE IF bd[i + 1] # cd[i + 1] THEN Err("NotBuiltFromBase", "diffID", i)
    ELSE baseLayerCheck(i + 1, bl, bd, cl, cd)

\* The check without the comparison of the diff-IDs
checkLayersOnly(basemf, basecfg, chkmf, chkcfg) ==
    baseLayerCheck(0, basemf.layers, chkcfg.diffIDs, chkmf.layers, chkcfg.diffIDs)

\* lines 289-319: the loop, then the slice expressions, which panic past the end
checkBuiltFromBase(basemf, basecfg, chkmf, chkcfg) ==
    LET e == baseLayerCheck(0, basemf.layers, basecfg.diffIDs, chkmf.layers, chkcfg.diffIDs)
    IN IF e # NoErr THEN e
       ELSE IF Len(basecfg.diffIDs) > Len(chkcfg.diffIDs)
               \/ Len(basecfg.history) > Len(chkcfg.history)
            THEN Err("panic", "slice bounds out of range", Len(basecfg.diffIDs))
       ELSE NoErr

\* lines 314-319: the chunk's config without the base's diff-IDs and history
subtractedConfig(basecfg, chkcfg) ==
    [chkcfg EXCEPT !.diffIDs = Drop(@, Len(basecfg.diffIDs)),
                   !.history = Drop(@, Len(basecfg.history))]

SetAnnotation(anns, k, v) == {a \in anns : a[1] # k} \cup {<<k, Some(v)>>}
Annotation(anns, k) ==
    IF \E a \in anns : a[1] = k THEN (CHOOSE a \in anns : a[1] = k)[2] ELSE None

\* The layers cut one short of the base's
layersFromLastBaseLayer(basemf, chkmf) ==
    LET rest == Drop(chkmf.layers, Len(basemf.layers) - 1)
    IN [i \in 1..Len(rest) |-> [rest[i] EXCEPT !.mediaType = MediaTypeImageLayerGzip]]

\* lines 331-334: the layers after the base's, their media type set to gzip
subtractedLayers(basemf, chkmf) ==
    LET rest == Drop(chkmf.layers, Len(basemf.layers))
    IN [i \in 1..Len(rest) |-> [rest[i] EXCEPT !.mediaType = MediaTypeImageLayerGzip]]

\* lines 335-338: the annotations with the base reference
subtractedAnnotations(baseref, chkmf) ==
    SetAnnotation(chkmf.annotations, mfAnnotationBaseRef, baseref)

\* lines 325-338: the chunked manifest
subtractedManifest(baseref, basemf, basecfg, chkmf, chkcfg) ==
    Manifest(ConfigDesc(MediaTypeImageConfig, subtractedConfig(basecfg, chkcfg)),
             subtractedLayers(basemf, chkmf),
             subtractedAnnotations(baseref, chkmf))

\* ProjectChunk.build, lines 604-609
ChunkedType(s) == IF s.noHash THEN ImageTypeChunkedNoHash ELSE ImageTypeChunked

\* The removeBaseLayer call of process p has returned (mf, didbuild, err)
Returned(h, p, mf, didbuild, err) ==
    [h EXCEPT ![p].rbl = [chunk |-> CurChunk(p), baseref |-> sess[p].baseRef,
                          basemf |-> sess[p].baseMF, full |-> loc[p].full,
                          dest |-> loc[p].chkRef, returned |-> mf,
                          didbuild |-> didbuild, err |-> err],
               ![p].didBuild = IF didbuild THEN @ \cup {CurChunk(p)} ELSE @]

\* removeBaseLayer returned (mf, didbuild, nil): build records the chunk and returns,
\* and Build goes on with the next chunk or returns nil
ChunkBuilt(p, mf, didbuild, h0, ts) ==
    LET h == Returned(h0, p, Some(mf), didbuild, NoErr)
    IN /\ sess' = [sess EXCEPT ![p] = recordChunk(@, loc[p].chkRef[1], mf)]
       /\ IF loc[p].i < Len(project.chunks)
          THEN /\ loc' = [loc EXCEPT ![p] = [Loc0 EXCEPT !.i = loc[p].i + 1]]
               /\ pc' = [pc EXCEPT ![p] = "test"]
               /\ hist' = h
               /\ UNCHANGED prev
          ELSE BuildSucceeds(p, h, ts)

\* removeBaseLayer returned an error (or panicked)
ChunkFails(p, err, h0, ts) ==
    /\ BuildFails(p, err, Returned(h0, p, None, FALSE, err), ts)
    /\ UNCHANGED sess

\* build, lines 604-615, and removeBaseLayer, lines 283-348: the chunk image's
\* metadata is pulled, checked against the base and rewritten
removeBaseLayer(p) ==
    /\ pc[p] = "removeBaseLayer"
    /\ LET c == CurChunk(p)
           chkRef == ImageName(p, c, ChunkedType(sess[p]))
           got == Pull(loc[p].tgt[1])
           basemf == sess[p].baseMF[1]
           basecfg == sess[p].baseCfg[1]
           e == checkBuiltFromBase(basemf, basecfg, got.mf[1], CfgOf(got.mf[1]))
       IN /\ cachedHash' = AfterImageName(p, c, ChunkedType(sess[p]))
          /\ IF got.err # ""
             THEN /\ BuildFails(p, Err(got.err, c, 0), hist, tags)
                  /\ UNCHANGED sess
             ELSE IF e # NoErr
             THEN /\ BuildFails(p, e,
                         [hist EXCEPT ![p].rbl =
                             [chunk |-> c, baseref |-> sess[p].baseRef,
                              basemf |-> sess[p].baseMF, full |-> got.mf,
                              dest |-> Some(chkRef), returned |-> None,
                              didbuild |-> FALSE, err |-> e]], tags)
                  /\ UNCHANGED sess
             ELSE /\ loc' = [loc EXCEPT
                               ![p].fullRef = loc[p].tgt,
                               ![p].full = got.mf,
                               ![p].chkRef = Some(chkRef),
                               ![p].chkmf = Some(subtractedManifest(sess[p].baseRef[1], basemf,
                                                   basecfg, got.mf[1], CfgOf(got.mf[1])))]
                  /\ pc' = [pc EXCEPT ![p] = "removeBaseLayer_dest"]
                  /\ UNCHANGED <<sess, hist, prev>>
    /\ UNCHANGED <<clock, project, tags, manifests, blobs, budget>>

\* A destination that is never taken for up to date
destNeverUpToDate(dst, chkmf) == FALSE

\* removeBaseLayer, lines 350-351: dst is what getImageMetadata answered for dest
destUpToDate(dst, chkmf) == dst.err = "" /\ dst.mf[1].config.digest = chkmf.config.digest

\* removeBaseLayer, lines 350-357: a destination whose config digest is the new
\* config's digest is returned as it is, with didbuild = false
removeBaseLayer_dest(p) ==
    /\ pc[p] = "removeBaseLayer_dest"
    /\ LET dst == Pull(loc[p].chkRef[1])
       IN IF destUpToDate(dst, loc[p].chkmf[1])
          THEN ChunkBuilt(p, dst.mf[1], FALSE, hist, tags)
          ELSE /\ pc' = [pc EXCEPT ![p] = "removeBaseLayer_pushConfig"]
               /\ UNCHANGED <<sess, loc, hist, prev>>
    /\ UNCHANGED <<clock, project, tags, manifests, blobs, cachedHash, budget>>

\* The manifest is pushed next, whatever layers are left to copy
manifestNext(p, l) ==
    /\ pc' = [pc EXCEPT ![p] = "removeBaseLayer_pushManifest"]
    /\ loc' = [loc EXCEPT ![p].l = 0]

\* Where removeBaseLayer goes on after layer number l of the chunked manifest
AfterLayer(p, l) ==
    IF l < Len(loc[p].chkmf[1].layers)
    THEN /\ pc' = [pc EXCEPT ![p] = "copyLayer"]
         /\ loc' = [loc EXCEPT ![p].l = l + 1]
    ELSE /\ pc' = [pc EXCEPT ![p] = "removeBaseLayer_pushManifest"]
         /\ loc' = [loc EXCEPT ![p].l = 0]

\* removeBaseLayer, lines 369-371: pusher.Push of the config
removeBaseLayer_pushConfig(p) ==
    /\ pc[p] = "removeBaseLayer_pushConfig"
    /\ IF BlobExists(loc[p].chkRef[1], loc[p].chkmf[1].config)
       THEN AfterLayer(p, 0)
       ELSE /\ pc' = [pc EXCEPT ![p] = "removeBaseLayer_commitConfig"]
            /\ UNCHANGED loc
    /\ UNCHANGED <<clock, project, tags, manifests, blobs, sess, cachedHash, hist, prev, budget>>

\* removeBaseLayer, lines 376-385: Write and Commit of the config; AlreadyExists is
\* skipped over
removeBaseLayer_commitConfig(p) ==
    /\ pc[p] = "removeBaseLayer_commitConfig"
    /\ LET dest == loc[p].chkRef[1]
           desc == loc[p].chkmf[1].config
       IN \E answer \in CommitAnswers(BlobExists(dest, desc)) :
            /\ blobs' = WithBlobs(blobs, dest.repo, {desc.digest})
            /\ hist' = IF answer = ""
                       THEN Logged(p, Op("push", "chunked config", CurChunk(p)))
                       ELSE hist
    /\ AfterLayer(p, 0)
    /\ UNCHANGED <<clock, project, tags, manifests, sess, cachedHash, prev, budget>>

\* copyLayer, lines 422-431: Fetch from the full image's repository, pusher.Push to
\* the destination; AlreadyExists returns nil
copyLayer(p) ==
    /\ pc[p] = "copyLayer"
    /\ LET l == loc[p].l
           desc == loc[p].chkmf[1].layers[l]
       IN IF ~HasBlob(loc[p].fullRef[1].repo, desc.digest)
          THEN ChunkFails(p, Err("NotFound", "copyLayer", l), hist, tags)
          ELSE IF BlobExists(loc[p].chkRef[1], desc)
          THEN /\ AfterLayer(p, l)
               /\ UNCHANGED <<sess, hist, prev>>
          ELSE /\ pc' = [pc EXCEPT ![p] = "copyLayer_commit"]
               /\ UNCHANGED <<sess, loc, hist, prev>>
    /\ UNCHANGED <<clock, project, tags, manifests, blobs, cachedHash, budget>>

\* What copyLayer returns for the answer of w.Commit, line 442
copyLayerReturns(answer) == answer

\* copyLayer, lines 437-442: io.Copy, then Commit, whose answer is returned
copyLayer_commit(p) ==
    /\ pc[p] = "copyLayer_commit"
    /\ LET l == loc[p].l
           dest == loc[p].chkRef[1]
           desc == loc[p].chkmf[1].layers[l]
       IN \E answer \in CommitAnswers(BlobExists(dest, desc)) :
            IF copyLayerReturns(answer) = ""
            THEN /\ blobs' = WithBlobs(blobs, dest.repo, {desc.digest})
                 /\ hist' = IF answer = ""
                            THEN Logged(p, Op("push", "chunked layer", CurChunk(p)))
                            ELSE hist
                 /\ AfterLayer(p, l)
                 /\ UNCHANGED <<sess, prev>>
            ELSE /\ ChunkFails(p, Err(copyLayerReturns(answer), "copyLayer", l), hist, tags)
                 /\ UNCHANGED blobs
    /\ UNCHANGED <<clock, project, tags, manifests, cachedHash, budget>>

\* removeBaseLayer, lines 399-401: pusher.Push of the manifest
removeBaseLayer_pushManifest(p) ==
    /\ pc[p] = "removeBaseLayer_pushManifest"
    /\ IF ManifestExists(loc[p].chkRef[1], loc[p].chkmf[1])
       THEN ChunkBuilt(p, loc[p].chkmf[1], TRUE, hist, tags)
       ELSE /\ pc' = [pc EXCEPT ![p] = "removeBaseLayer_commitManifest"]
            /\ UNCHANGED <<sess, loc, hist, prev>>
    /\ UNCHANGED <<clock, project, tags, manifests, blobs, cachedHash, budget>>

\* removeBaseLayer, lines 406-418: Write and Commit of the manifest; AlreadyExists is
\* skipped over; return chkmf, true, nil
removeBaseLayer_commitManifest(p) ==
    /\ pc[p] = "removeBaseLayer_commitManifest"
    /\ LET dest == loc[p].chkRef[1]
           mf == loc[p].chkmf[1]
       IN \E answer \in CommitAnswers(ManifestExists(dest, mf)) :
            /\ manifests' = WithManifest(manifests, dest, mf)
            /\ tags' = WithTagSet(tags, dest, mf)
            /\ ChunkBuilt(p, mf, TRUE,
                          IF answer = ""
                          THEN Logged(p, Op("push", "chunked manifest", CurChunk(p)))
                          ELSE hist,
                          WithTagSet(tags, dest, mf))
    /\ UNCHANGED <<clock, project, blobs, cachedHash, budget>>

-----------------------------------------------------------------------------
(* mergeEnv *)

\* The orders a range over a map with keys S may take
MapOrders(S) == {q \in [1..Cardinality(S) -> S] : \A x \in S : \E i \in DOMAIN q : q[i] = x}

\* An entry of Config.Env as strings.Split(e, "=") sees it: NAME=VALUE has two parts.
\* A value is the sequence of its segments and of the separators between them
EnvEntry(name, value) == <<name, value>>

\* mergeEnv, lines 271-277: the base's entries, a later one replacing an earlier one
\* of its name; None for an entry that is not NAME=VALUE
RECURSIVE baseEnvs(_, _)
baseEnvs(envs, es) ==
    IF es = <<>> THEN Some(envs)
    ELSE IF Len(Head(es)) # 2 THEN None
    ELSE baseEnvs((Head(es)[1] :> Head(es)[2]) @@ envs, Tail(es))

\* mergeEnv, lines 280-293: the entries of one image; a value whose name is known
\* is appended after ";"
RECURSIVE addEnvs(_, _)
addEnvs(envs, es) ==
    IF es = <<>> THEN Some(envs)
    ELSE IF Len(Head(es)) # 2 THEN None
    ELSE LET k == Head(es)[1]
             v == Head(es)[2]
         IN addEnvs(IF k \in DOMAIN envs
                    THEN [envs EXCEPT ![k] = @ \o <<";">> \o v]
                    ELSE (k :> v) @@ envs,
                    Tail(es))

\* mergeEnv, lines 279-294: the images in the order given
RECURSIVE addAll(_, _)
addAll(envs, others) ==
    IF others = <<>> THEN Some(envs)
    ELSE LET r == addEnvs(envs, Head(others))
         IN IF r = None THEN None ELSE addAll(r[1], Tail(others))

\* Entries that are not NAME=VALUE are passed over
mergeEnvSkipping(base, others) ==
    LET ok(es) == SelectSeq(es, LAMBDA e : Len(e) = 2)
    IN addAll(baseEnvs(<<>>, ok(base))[1], [i \in 1..Len(others) |-> ok(others[i])])

\* mergeEnv(base, others), lines 269-294: NAME -> VALUE, None for the error
mergeEnv(base, others) ==
    LET b == baseEnvs(<<>>, base)
    IN IF b = None THEN None ELSE addAll(b[1], others)

-----------------------------------------------------------------------------
(* Project.Combine *)

CombineDest == WithTag(CombineRepo, <<"combination">>)

\* time.Now(): a later reading than the latest one, or the same reading again
Now(p) == {clock + 1} \cup (IF budget[p].repeats > 0 THEN {clock} ELSE {})

\* The readings left to repeat after time.Now() answered now
Repeats(p, now) == IF now = clock THEN budget[p].repeats - 1 ELSE budget[p].repeats
\* The destination itself
destItself(now) == CombineDest

\* reference.WithTag(dest, "temp<unix time>")
TempDest(now) == WithTag(CombineRepo, <<"temp", now>>)

\* Combine returns err
CombineReturned(h, p, err) ==
    [h EXCEPT ![p].cmb = [returned |-> TRUE, err |-> err, picks |-> loc[p].picks,
                          dest |-> loc[p].dest, mfs |-> loc[p].mfs, mf |-> loc[p].chkmf,
                          temp |-> loc[p].temp, dest0 |-> loc[p].dest0]]

CombineReturns(p, err, h) ==
    /\ pc' = [pc EXCEPT ![p] = "idle"]
    /\ loc' = [loc EXCEPT ![p] = Loc0]
    /\ hist' = CombineReturned(h, p, err)

\* cmd combine: the project is loaded, NewSession, DownloadBaseInfo, then Combine
\* is called; with tests, Combine first calls itself for a temp destination.
\* A process combines what it has built: once it combines it builds no more
Combine(p) ==
    /\ pc[p] = "idle"
    /\ budget[p].combines > 0
    /\ \E picks \in project.picks, runTests \in BOOLEAN :
       \E now \in IF runTests THEN Now(p) ELSE {clock} :
         LET baseref == BaseRef(NoCachedHash)
             got == Pull(baseref)
             l0 == [Loc0 EXCEPT !.picks = picks, !.runTests = runTests, !.temp = runTests,
                                !.dest = Some(IF runTests THEN TempDest(now)
                                              ELSE CombineDest),
                                !.dest0 = Resolve(CombineDest)]
             \* the last Combine of this process that returned nil for the destination
             last == IF hist[p].cmb.returned /\ hist[p].cmb.err = NoErr
                     THEN hist[p].cmb ELSE hist[p].lastcmb
         IN /\ clock' = now
            /\ budget' = [budget EXCEPT ![p].combines = @ - 1, ![p].builds = 0,
                                        ![p].repeats = IF runTests THEN Repeats(p, now) ELSE @]
            /\ cachedHash' = [cachedHash EXCEPT ![p] = Memoized(NoCachedHash, "base", None, TRUE)]
            /\ IF got.err # ""
               THEN /\ pc' = [pc EXCEPT ![p] = "idle"]
                    /\ loc' = [loc EXCEPT ![p] = Loc0]
                    /\ sess' = [sess EXCEPT ![p] = NewSession(FALSE, FALSE)]
                    /\ hist' = [hist EXCEPT ![p] = [Hist0 EXCEPT !.lastcmb = last, !.cmb =
                                  [NoCombine EXCEPT !.returned = TRUE,
                                                    !.err = Err(got.err, "base", 0),
                                                    !.picks = picks]]]
               ELSE /\ sess' = [sess EXCEPT ![p] =
                                  baseBuildFinished(NewSession(FALSE, FALSE),
                                                    got.absref[1], got.mf[1])]
                    /\ loc' = [loc EXCEPT ![p] = l0]
                    /\ pc' = [pc EXCEPT ![p] = "Combine_pull"]
                    /\ hist' = [hist EXCEPT ![p] = [Hist0 EXCEPT !.lastcmb = last]]
    /\ UNCHANGED <<project, tags, manifests, blobs, prev>>

\* Combine, lines 117-129: the chunked image names of the picks, in pick order
RECURSIVE PickRefs(_, _, _)
PickRefs(ch, s, picks) ==
    IF picks = <<>> THEN <<>>
    ELSE <<WithTag(MainRepo, <<Head(picks), hash(ch, Head(picks), s.baseRef, TRUE),
                               ImageTypeChunked>>)>>
         \o PickRefs(Memoized(ch, Head(picks), s.baseRef, TRUE), s, Tail(picks))

\* cachedHash after the names of the picks were computed
RECURSIVE AfterPickRefs(_, _, _)
AfterPickRefs(ch, s, picks) ==
    IF picks = <<>> THEN ch
    ELSE AfterPickRefs(Memoized(ch, Head(picks), s.baseRef, TRUE), s, Tail(picks))

\* Combine, lines 131-140: allLayer, allDiffs, allHist over mfs, the base first
RECURSIVE allLayer(_)
allLayer(mfs) == IF mfs = <<>> THEN <<>> ELSE Head(mfs).layers \o allLayer(Tail(mfs))
RECURSIVE allDiffs(_)
allDiffs(mfs) == IF mfs = <<>> THEN <<>> ELSE CfgOf(Head(mfs)).diffIDs \o allDiffs(Tail(mfs))
RECURSIVE allHist(_)
allHist(mfs) == IF mfs = <<>> THEN <<>> ELSE CfgOf(Head(mfs)).history \o allHist(Tail(mfs))

\* mergeAnnotations: the base's annotations, then those of the others whose key is new
RECURSIVE mergeAnnotations(_, _)
mergeAnnotations(res, others) ==
    IF others = <<>> THEN res
    ELSE mergeAnnotations(
           res \cup {a \in Head(others).annotations : \A r \in res : r[1] # a[1]},
           Tail(others))

\* Combine, lines 147-195: the combined config and manifest
CombinedManifest(mfs, now, env) ==
    Manifest(ConfigDesc(MediaTypeImageConfig,
                        [ImageConfig(allDiffs(mfs), allHist(mfs)) EXCEPT !.created = now,
                                                                         !.env = env]),
             allLayer(mfs),
             mergeAnnotations(mfs[1].annotations, mfs))

\* The picks in the order of the project's chunks
projectOrder(picks) ==
    IF Len(picks) = 2 /\ picks[1] = "b" THEN <<picks[2], picks[1]>> ELSE picks

\* Combine, lines 88-102 and 117: cs holds the picked chunks in the order given
pullOrder(picks) == picks

\* Combine, lines 88-195: the picks are looked up in the project, their chunked
\* images pulled, the combined config and manifest computed
Combine_pull(p) ==
    /\ pc[p] = "Combine_pull"
    /\ \E now \in Now(p) :
       LET picks == pullOrder(loc[p].picks)
           crefs == PickRefs(cachedHash[p], sess[p], picks)
           pulled == [i \in 1..Len(crefs) |-> Pull(crefs[i])]
           mfs == <<sess[p].baseMF[1]>> \o [i \in 1..Len(crefs) |-> pulled[i].mf[1]]
           cfgs == [i \in 1..Len(mfs) |-> CfgOf(mfs[i]).env]
           envs == mergeEnv(cfgs[1], cfgs)
       IN IF \E i \in 1..Len(picks) : \A j \in 1..Len(project.chunks) :
                                          project.chunks[j] # picks[i]
          THEN /\ CombineReturns(p, Err("ChunkNotFound", "project", 0), hist)
               /\ UNCHANGED <<cachedHash, clock, budget>>
          ELSE /\ cachedHash' = [cachedHash EXCEPT
                                   ![p] = AfterPickRefs(@, sess[p], picks)]
               /\ IF \E i \in 1..Len(crefs) : pulled[i].err # ""
                  THEN /\ CombineReturns(p, Err("NotFound", "chunk", 0), hist)
                       /\ UNCHANGED <<clock, budget>>
                  ELSE IF envs = None
                  THEN /\ CombineReturns(p, Err("MalformedEnv", "env", 0), hist)
                       /\ UNCHANGED <<clock, budget>>
                  ELSE \E order \in MapOrders(DOMAIN envs[1]) :
                       /\ loc' = [loc EXCEPT
                                    ![p].mfs = mfs,
                                    ![p].chkmf = Some(CombinedManifest(mfs, now,
                                        [i \in 1..Len(order) |->
                                            EnvEntry(order[i], envs[1][order[i]])]))]
                       /\ pc' = [pc EXCEPT ![p] = "Combine_pushConfig"]
                       /\ clock' = now
                       /\ budget' = [budget EXCEPT ![p].repeats = Repeats(p, now)]
                       /\ UNCHANGED hist
    /\ UNCHANGED <<project, tags, manifests, blobs, sess, prev>>

\* Combine, lines 198-210: pusher.Push of the config, whose every error is
\* returned; Write and Commit, whose every error is returned
Combine_pushConfig(p) ==
    /\ pc[p] = "Combine_pushConfig"
    /\ LET dest == loc[p].dest[1]
           desc == loc[p].chkmf[1].config
       IN IF BlobExists(dest, desc)
          THEN /\ CombineReturns(p, Err("AlreadyExists", "config", 0), hist)
               /\ UNCHANGED blobs
          ELSE /\ blobs' = WithBlobs(blobs, dest.repo, {desc.digest})
               /\ pc' = [pc EXCEPT ![p] = "Combine_pushManifest"]
               /\ hist' = Logged(p, Op("push", "combined config", loc[p].dest[1]))
               /\ UNCHANGED loc
    /\ UNCHANGED <<clock, project, tags, manifests, sess, cachedHash, prev, budget>>

\* The picked chunks that have tests, in pick order
RECURSIVE TestedPicks(_)
TestedPicks(picks) ==
    IF picks = <<>> THEN <<>>
    ELSE (IF Len(TestsOf(Head(picks))) = 0 THEN <<>> ELSE <<Head(picks)>>)
         \o TestedPicks(Tail(picks))

\* Combine, lines 211-232: pusher.Push of the manifest, whose error is dropped: the
\* nil writer of a refused push panics; Write and Commit; with RunTests the tests of
\* the picks run against the pushed image. Lines 73-86: after the temp build the
\* call goes on for the destination itself, without tests
Combine_pushManifest(p) ==
    /\ pc[p] = "Combine_pushManifest"
    /\ LET dest == loc[p].dest[1]
           mf == loc[p].chkmf[1]
           pushed == Logged(p, Op("push", "combined manifest", loc[p].dest[1]))
       IN IF ManifestExists(dest, mf)
          THEN /\ CombineReturns(p, Err("panic", "nil writer", 0), hist)
               /\ UNCHANGED <<tags, manifests>>
          ELSE /\ manifests' = WithManifest(manifests, dest, mf)
               /\ tags' = WithTagSet(tags, dest, mf)
               /\ IF loc[p].runTests /\ TestedPicks(loc[p].picks) # <<>>
                  THEN \E ok \in project.outcomes :
                         IF ok
                         THEN /\ pc' = [pc EXCEPT ![p] = "Combine_pull"]
                              /\ loc' = [loc EXCEPT ![p].temp = FALSE,
                                                    ![p].runTests = FALSE,
                                                    ![p].dest = Some(CombineDest),
                                                    ![p].mfs = <<>>,
                                                    ![p].chkmf = None]
                              /\ hist' = CombineReturned(pushed, p, NoErr)
                         ELSE CombineReturns(p, Err("TestsFailed", "combine", 0), pushed)
                  ELSE IF loc[p].temp
                  THEN /\ pc' = [pc EXCEPT ![p] = "Combine_pull"]
                       /\ loc' = [loc EXCEPT ![p].temp = FALSE,
                                             ![p].runTests = FALSE,
                                             ![p].dest = Some(CombineDest),
                                             ![p].mfs = <<>>,
                                             ![p].chkmf = None]
                       /\ hist' = CombineReturned(pushed, p, NoErr)
                  ELSE CombineReturns(p, NoErr, pushed)
    /\ UNCHANGED <<clock, project, blobs, sess, cachedHash, prev, budget>>

-----------------------------------------------------------------------------
(* The specification: one process building and combining again and again *)

BuildStep(p) ==
    \/ Build(p)
    \/ buildAsBase(p)
    \/ Build_base(p)
    \/ Push_config(p)
    \/ Push_configCommit(p)
    \/ Push_manifest(p)
    \/ Push_manifestCommit(p)
    \/ test(p)
    \/ buildImage(p)
    \/ buildImage_solve(p)
    \/ test_run(p)
    \/ removeBaseLayer(p)
    \/ removeBaseLayer_dest(p)
    \/ removeBaseLayer_pushConfig(p)
    \/ removeBaseLayer_commitConfig(p)
    \/ copyLayer(p)
    \/ copyLayer_commit(p)
    \/ removeBaseLayer_pushManifest(p)
    \/ removeBaseLayer_commitManifest(p)

CombineStep(p) ==
    \/ Combine(p)
    \/ Combine_pull(p)
    \/ Combine_pushConfig(p)
    \/ Combine_pushManifest(p)

Next ==
    /\ \E p \in Procs : BuildStep(p) \/ CombineStep(p)
    /\ UNCHANGED <<input, output>>

Spec == Init /\ [][Next]_vars

-----------------------------------------------------------------------------
(* The specification: two processes building at the same time *)

ConcNext ==
    /\ \E p \in Procs : BuildStep(p)
    /\ UNCHANGED <<input, output>>

ConcSpec == ConcInit /\ [][ConcNext]_vars

-----------------------------------------------------------------------------
(* The specification: one process building, with and without WithNoTests *)

NoTestsSpec == NoTestsInit /\ [][ConcNext]_vars

-----------------------------------------------------------------------------
(* The specification: one process building, each run with env-var policies of its own *)

RewriteSpec == RewriteInit /\ [][ConcNext]_vars

-----------------------------------------------------------------------------
(* The specification: one process building against a registry that may refuse a Resolve *)

DeniedSpec == DeniedInit /\ [][ConcNext]_vars

-----------------------------------------------------------------------------
(* The specification: one process combining while another builds *)

RaceSpec == RaceInit /\ [][Next]_vars

-----------------------------------------------------------------------------
(* The specification: two processes subtracting the base from the same chunk *)

\* The steps of a Build of chunks without tests, with no env-var policies
CopyStep(p) ==
    \/ Build(p)
    \/ buildAsBase(p)
    \/ Build_base(p)
    \/ test(p)
    \/ buildImage(p)
    \/ buildImage_solve(p)
    \/ removeBaseLayer(p)
    \/ removeBaseLayer_dest(p)
    \/ removeBaseLayer_pushConfig(p)
    \/ removeBaseLayer_commitConfig(p)
    \/ copyLayer(p)
    \/ copyLayer_commit(p)
    \/ removeBaseLayer_pushManifest(p)
    \/ removeBaseLayer_commitManifest(p)

CopyNext ==
    /\ \E p \in Procs : CopyStep(p)
    /\ UNCHANGED <<input, output>>

CopySpec == CopyInit /\ [][CopyNext]_vars

-----------------------------------------------------------------------------
(* The specification: one process building once and combining again and again *)

CombineSpec == CombineInit /\ [][Next]_vars

EnvSpec == EnvInit /\ [][Next]_vars

-----------------------------------------------------------------------------
(* The specification: one chunk directory loaded and fingerprinted in two projects *)

\* No Build and no Combine is called
EngineIdle ==
    /\ InitCommon
    /\ project = [chunks |-> <<>>, kind |-> <<>>, tests |-> <<>>, outcomes |-> {},
                  opts |-> None, picks |-> {}, env |-> <<>>,
                  withNoTests |-> {}, envVars |-> {}, resolveErrs |-> {},
                  unstable |-> FALSE]
    /\ budget = [p \in Procs |-> [builds |-> 0, combines |-> 0, repeats |-> 0]]

LoadedName == "foobar"

VariantLists ==
    {None,
     Some(<<ChunkVariant("1.16.3", {<<"GO_VERSION", "1.16.3">>}, ""),
            ChunkVariant("1.16.4", {<<"GO_VERSION", "1.16.4">>}, "")>>),
     Some(<<ChunkVariant("1.16.3", {<<"GO_VERSION", "1.16.3">>}, ""),
            ChunkVariant("alt", {<<"GO_VERSION", "1.16.3">>}, "Dockerfile.alt")>>),
     Some(<<ChunkVariant("plain", {}, "")>>)}

TestFiles ==
    {<<>>,
     "foobar" :> <<"ls">>, "foobar" :> <<"pwd">>, "foobar" :> <<"ls", "pwd">>,
     "other" :> <<"ls">>, ("foobar" :> <<"ls">>) @@ ("other" :> <<"ls">>)}

ChunkDirs ==
    [Dockerfiles : {("Dockerfile" :> d) @@ ("Dockerfile.alt" :> "FROM alpine")
                      : d \in {"FROM ubuntu", "FROM debian"}},
     Sources : {<<>>, <<"/install.sh:0f3a">>},
     Tests : TestFiles,
     Variants : VariantLists]

\* sess.baseRef.String() of the two sessions
BaseRefs == {None, Some("target@sha256:base")}

FingerprintInit ==
    /\ EngineIdle
    /\ output = None
    /\ input \in [left : [dir : ChunkDirs, baseref : BaseRefs],
                   right : [dir : ChunkDirs, baseref : BaseRefs]]

\* loadChunks(dir, contextBase, "chunks", name) in either project
Fingerprint_loadChunks ==
    /\ input # None
    /\ output = None
    /\ output' = [stage |-> "loaded",
                  left |-> loadChunks(input.left.dir, LoadedName),
                  right |-> loadChunks(input.right.dir, LoadedName)]
    /\ UNCHANGED <<engine, input>>

\* The fingerprints ImageName puts into the tags of a loaded chunk: the one of the
\* full and chunked images, and the one of the test image and the test result
Fingerprints(chk, baseref) ==
    [chunk |-> chk,
     ExcludeTests |-> hashLoaded(chk, baseref, ExcludesTests(ImageTypeFull)),
     WithTests |-> hashLoaded(chk, baseref, ExcludesTests(ImageTypeTest))]

\* The fingerprints of the loaded chunks in either project
Fingerprint_hash ==
    /\ output # None
    /\ output.stage = "loaded"
    /\ output' = [stage |-> "hashed",
                  left |-> [i \in 1..Len(output.left) |->
                              Fingerprints(output.left[i], input.left.baseref)],
                  right |-> [i \in 1..Len(output.right) |->
                               Fingerprints(output.right[i], input.right.baseref)]]
    /\ UNCHANGED <<engine, input>>

FingerprintNext == Fingerprint_loadChunks \/ Fingerprint_hash

FingerprintSpec == FingerprintInit /\ [][FingerprintNext]_vars

-----------------------------------------------------------------------------
(* Base-layer subtraction *)

\* The removeBaseLayer calls that returned a manifest
Subtracted == {p \in Procs : hist[p].rbl.returned # None}

\* C1: whenever removeBaseLayer succeeds for base B and full image F, the manifest M
\* it returns is the one stored at dest, M has len(F.layers) - len(B.layers) layers,
\* M's i-th layer digest is F's (len(B.layers)+i)-th, and the diff-IDs of M's config
\* are F's without the first len(B.diff_ids)
C1_SubtractionKeepsTheSuffix ==
    \A p \in Subtracted :
        LET r == hist[p].rbl
            M == r.returned[1]
            F == r.full[1]
            B == r.basemf[1]
            n == Len(B.layers)
            nd == Len(CfgOf(B).diffIDs)
        IN /\ Resolve(r.dest[1]) = Some(M)
           /\ Len(M.layers) = Len(F.layers) - n
           /\ \A i \in 1..Len(M.layers) : M.layers[i].digest = F.layers[n + i].digest
           /\ Len(CfgOf(M).diffIDs) = Len(CfgOf(F).diffIDs) - nd
           /\ \A i \in 1..Len(CfgOf(M).diffIDs) :
                 CfgOf(M).diffIDs[i] = CfgOf(F).diffIDs[nd + i]

\* a subtraction that pushed a chunked manifest with a layer of its own
C1_Witness ==
    \E p \in Subtracted :
        /\ hist[p].rbl.didbuild
        /\ Len(hist[p].rbl.returned[1].layers) > 0
        /\ Len(hist[p].rbl.basemf[1].layers) > 0

\* The indexes (from 0) below len(base.layers) at which the full image F has a layer
\* and a diff-ID and one of them differs from the base's
Mismatches(B, F) ==
    {i \in 0..(Len(B.layers) - 1) :
        /\ i < Len(F.layers) /\ i < Len(CfgOf(F).diffIDs) /\ i < Len(CfgOf(B).diffIDs)
        /\ \/ F.layers[i + 1].digest # B.layers[i + 1].digest
           \/ CfgOf(F).diffIDs[i + 1] # CfgOf(B).diffIDs[i + 1]}

\* C2: a removeBaseLayer call whose full image differs from the base in the layer
\* digest or the diff-ID at an index below len(base.layers) ends with a
\* not-built-from-base error that names the first such index, in the step that read
\* the full image, and that step leaves tags, manifests and blobs as they were
C2_MismatchIsRefusedWithoutPush ==
    [][\A p \in Procs :
          (/\ pc[p] = "removeBaseLayer"
           /\ pc'[p] # "removeBaseLayer"
           /\ Pull(loc[p].tgt[1]).err = ""
           /\ Mismatches(sess[p].baseMF[1], Pull(loc[p].tgt[1]).mf[1]) # {})
          => (LET mis == Mismatches(sess[p].baseMF[1], Pull(loc[p].tgt[1]).mf[1])
              IN /\ pc'[p] = "idle"
                 /\ prev'[p].status = "failed"
                 /\ prev'[p].err[1] = "NotBuiltFromBase"
                 /\ prev'[p].err[3] \in mis
                 /\ \A i \in mis : prev'[p].err[3] <= i
                 /\ hist'[p].rbl.returned = None
                 /\ UNCHANGED <<tags, manifests, blobs>>)]_vars

\* a call refused for the diff-ID at index 1, the layers being the base's
C2_Witness ==
    \E p \in Procs :
        /\ hist[p].rbl.err = Err("NotBuiltFromBase", "diffID", 1)
        /\ Mismatches(hist[p].rbl.basemf[1], hist[p].rbl.full[1]) = {1}

-----------------------------------------------------------------------------
(* Combination *)

\* The chunked image of chunk c as named for the session of process p
ChunkedImageOf(p, c) ==
    tags[TagKey(WithTag(MainRepo, <<c, Digest(ChunkManifest(c, sess[p].baseRef, TRUE)),
                                    ImageTypeChunked>>))]

\* The Combine calls (the temp ones included) that returned nil
Combined == {p \in Procs : hist[p].cmb.returned /\ hist[p].cmb.err = NoErr}

RECURSIVE PickedLayers(_, _)
PickedLayers(p, picks) ==
    IF picks = <<>> THEN <<>>
    ELSE ChunkedImageOf(p, Head(picks)).layers \o PickedLayers(p, Tail(picks))
RECURSIVE PickedDiffIDs(_, _)
PickedDiffIDs(p, picks) ==
    IF picks = <<>> THEN <<>>
    ELSE CfgOf(ChunkedImageOf(p, Head(picks))).diffIDs \o PickedDiffIDs(p, Tail(picks))
RECURSIVE PickedHistory(_, _)
PickedHistory(p, picks) ==
    IF picks = <<>> THEN <<>>
    ELSE CfgOf(ChunkedImageOf(p, Head(picks))).history \o PickedHistory(p, Tail(picks))

\* C3: after a successful combine of base B with picks C_1..C_k the manifest at dest
\* has the layers of B, then of C_1, ..., then of C_k, and its config's diff-IDs and
\* history are the same base-first concatenations in pick order
C3_CombineConcatenatesInPickOrder ==
    \A p \in Combined :
        LET r == hist[p].cmb
            B == sess[p].baseMF[1]
            M == tags[TagKey(r.dest[1])]
        IN /\ TagKey(r.dest[1]) \in DOMAIN tags
           /\ HasBlob(r.dest[1].repo, M.config.digest)
           /\ M.layers = B.layers \o PickedLayers(p, r.picks)
           /\ CfgOf(M).diffIDs = CfgOf(B).diffIDs \o PickedDiffIDs(p, r.picks)
           /\ CfgOf(M).history = CfgOf(B).history \o PickedHistory(p, r.picks)

\* a successful combine of b, then a, whose chunked images each have a layer
C3_Witness ==
    \E p \in Combined :
        /\ hist[p].cmb.picks = <<"b", "a">>
        /\ ~hist[p].cmb.temp
        /\ Len(PickedLayers(p, hist[p].cmb.picks)) = 2

\* C4: the manifest a successful removeBaseLayer call returns carries the base-ref
\* annotation with the base reference the call was given, whatever builds went
\* before and with either setting of chunked-without-hash
C4_ReturnedManifestNamesItsBase ==
    \A p \in Subtracted :
        Annotation(hist[p].rbl.returned[1].annotations, mfAnnotationBaseRef)
            = hist[p].rbl.baseref

-----------------------------------------------------------------------------
(* Tests *)

\* The stored test result of chunk c says passed, as the session of p names it
StoredPassed(p, c) ==
    LET r == Pull(ImageName(p, c, imageTypeTestResult))
    IN r.err = "" /\ CfgOf(r.mf[1]).passed

\* C5: when the registry holds passed=true at the chunk's test-result reference,
\* test returns (true, false, nil) in its first step: build begins with the full
\* image, no solver call and no test run is logged, nothing is pushed
C5_PassedResultSkipsTests ==
    [][\A p \in Procs :
          (/\ pc[p] = "test"
           /\ pc'[p] # "test"
           /\ ~sess[p].noTests
           /\ Len(TestsOf(CurChunk(p))) > 0
           /\ StoredPassed(p, CurChunk(p)))
          => (/\ pc'[p] = "buildImage"
              /\ loc'[p].tpe = ImageTypeFull
              /\ loc'[p].i = loc[p].i
              /\ hist'[p] = hist[p]
              /\ UNCHANGED <<tags, manifests, blobs>>)]_vars

\* build has begun for a chunk with tests whose stored result says passed and whose
\* tests did not run in this Build
C5_Witness ==
    \E p \in Procs :
        /\ pc[p] = "buildImage"
        /\ loc[p].tpe = ImageTypeFull
        /\ Len(TestsOf(CurChunk(p))) > 0
        /\ StoredPassed(p, CurChunk(p))
        /\ CurChunk(p) \notin hist[p].didRun
        /\ \A i \in 1..Len(hist[p].ops) : hist[p].ops[i][3] # CurChunk(p)

\* The position of chunk c in p.Chunks
Idx(c) == CHOOSE i \in 1..Len(project.chunks) : project.chunks[i] = c

\* The operations logged for chunk c other than its test image and its test run
BeyondTests(ops, c) ==
    {i \in 1..Len(ops) :
        /\ ops[i][3] = c
        /\ ops[i] # Op("solve", ImageTypeTest, c)
        /\ ops[i] # Op("runtests", ImageTypeTest, c)}

\* C6: when tests of chunk C have failed, Build has returned an error for C, and the
\* Build has logged for C no solver call for the full image, no push of a test
\* result, no push of a chunked config, layer or manifest, and nothing at all for
\* the chunks after C; the registry holds no test result, full or chunked image
\* that this Build would have added for C
C6_FailedTestsStopTheBuild ==
    \A p \in Procs : \A c \in hist[p].testsFailed :
        /\ pc[p] \in {"idle", "Combine_pull", "Combine_pushConfig", "Combine_pushManifest"}
        /\ prev[p].status = "failed"
        /\ prev[p].err = Err("TestsFailed", c, 0)
        /\ prev[p].chunk = c
        /\ BeyondTests(hist[p].ops, c) = {}
        /\ \A i \in 1..Len(hist[p].ops) :
              hist[p].ops[i][3] \in ChunkNames => Idx(hist[p].ops[i][3]) <= Idx(c)
        /\ \A k \in prev[p].newTags :
              k[2][1] = c => k[2][3] = ImageTypeTest
        /\ c \notin hist[p].didBuild

\* the tests of the first chunk failed, after its test image was built
C6_Witness ==
    \E p \in Procs :
        /\ "a" \in hist[p].testsFailed
        /\ Op("solve", ImageTypeTest, "a") \in OpsOf(hist[p].ops)
        /\ Len(project.chunks) > 1

\* Process p is past the tests of chunk c in its running Build
PastTests(p, c) ==
    /\ pc[p] \notin {"idle", "Build_base", "buildAsBase", "Combine_pull",
                     "Combine_pushConfig", "Combine_pushManifest"}
    /\ loc[p].i >= 1
    /\ \/ loc[p].i > Idx(c)
       \/ /\ loc[p].i = Idx(c)
          /\ pc[p] \notin {"test", "test_run", "Push_config", "Push_configCommit",
                           "Push_manifest", "Push_manifestCommit"}
          /\ ~(loc[p].tpe = ImageTypeTest /\ pc[p] \in {"buildImage", "buildImage_solve"})

\* C7: in a Build that follows one in which the tests of chunk C failed, with the
\* same project, options and registry, the tests of C have run by the time the
\* Build is past them and by the time it returns: the test image the failed Build
\* left behind makes no difference
C7_FailedTestsRunAgain ==
    \A p \in Procs :
        /\ (hist[p].retryOf # "" /\ PastTests(p, hist[p].retryOf))
              => hist[p].retryOf \in hist[p].didRun
        /\ (pc[p] = "idle" /\ prev[p].retryOf # "")
              => prev[p].retryOf \in prev[p].didRun

\* the retry ran the tests of the chunk on the test image the failed Build had
\* pushed: the solver built no test image this time
C7_Witness ==
    \E p \in Procs :
        /\ hist[p].retryOf # ""
        /\ hist[p].retryOf \in hist[p].didRun
        /\ Op("solve", ImageTypeTest, hist[p].retryOf) \notin OpsOf(hist[p].ops)
        /\ PastTests(p, hist[p].retryOf)

-----------------------------------------------------------------------------
(* Rebuilds *)

\* The solver calls logged
Solves(ops) == {i \in 1..Len(ops) : ops[i][1] = "solve"}

\* C8: a Build that follows a successful Build of the same project with the same
\* options against the same registry calls the solver for nothing, runs no tests,
\* reports didBuild = false for every chunk, adds no tag, and returns nil
C8_RebuildDoesNothing ==
    \A p \in Procs :
        /\ (hist[p].rerun /\ pc[p] # "idle")
              => /\ Solves(hist[p].ops) = {}
                 /\ hist[p].didRun = {}
                 /\ hist[p].didBuild = {}
                 /\ DOMAIN tags = hist[p].tags0
        /\ (prev[p].rerun /\ pc[p] = "idle")
              => /\ prev[p].status = "ok"
                 /\ Solves(prev[p].ops) = {}
                 /\ prev[p].didRun = {}
                 /\ prev[p].didBuild = {}
                 /\ prev[p].newTags = {}

\* a finished rebuild of a project whose chunks subtract from the base
C8_Witness ==
    \E p \in Procs :
        /\ pc[p] = "idle"
        /\ prev[p].rerun
        /\ prev[p].status = "ok"
        /\ hist[p].rbl.returned # None
        /\ \E c \in ChunkNames : project.tests[c]

-----------------------------------------------------------------------------
(* AlreadyExists *)

\* C9: a Registry.Push call in which the pusher answered AlreadyExists, for the
\* config or for the manifest, returns no error and a digested reference
C9_PushTakesAlreadyExistsForSuccess ==
    \A p \in Procs :
        (hist[p].pushret.called /\ hist[p].pushret.ae # {})
           => /\ hist[p].pushret.err = ""
              /\ hist[p].pushret.aref # None
              /\ IsDigested(hist[p].pushret.aref[1])

\* C10: of two Builds of one project running at the same time against one
\* registry, none returns an error
C10_ConcurrentBuildsBothComplete ==
    \A p \in Procs : prev[p].status # "failed"

-----------------------------------------------------------------------------
(* Combining with tests, combining again *)

\* The references a process has pushed to in its current call
PushedTo(p) == {op[3] : op \in {o \in OpsOf(hist[p].ops) : o[1] = "push"}}

\* The Combine calls that returned because tests failed
CombineTestsFailed ==
    {p \in Procs : hist[p].cmb.returned /\ hist[p].cmb.err[1] = "TestsFailed"}

\* C11: when Combine runs with tests and the tests of a picked chunk fail against
\* the temporary combination, Combine returns an error, nothing was pushed to the
\* requested dest, and the dest tag names what it named before the call.
C11_FailedTestsLeaveDestAlone ==
    \A p \in CombineTestsFailed :
        /\ hist[p].cmb.err # NoErr
        /\ CombineDest \notin PushedTo(p)
        /\ Resolve(CombineDest) = hist[p].cmb.dest0

\* Tests failed against a temporary combination that was pushed, while dest named
\* an earlier combination
C11_Witness ==
    \E p \in CombineTestsFailed :
        /\ hist[p].cmb.dest0 # None
        /\ hist[p].cmb.temp
        /\ PushedTo(p) = {hist[p].cmb.dest[1]}
        /\ Resolve(hist[p].cmb.dest[1]) = hist[p].cmb.mf
        /\ hist[p].cmb.mf # hist[p].cmb.dest0

\* The Combine calls that computed the very manifest (same base, chunks and creation
\* time) for the very dest of the last Combine that returned nil
Recombined ==
    {p \in Procs : /\ hist[p].cmb.returned
                   /\ hist[p].lastcmb.returned
                   /\ hist[p].cmb.mf # None
                   /\ hist[p].cmb.mf = hist[p].lastcmb.mf
                   /\ hist[p].cmb.picks = hist[p].lastcmb.picks
                   /\ hist[p].cmb.dest = hist[p].lastcmb.dest}

\* C12: a second Combine with the chunks, base, dest and creation time of an earlier
\* successful Combine returns nil as well (AlreadyExists for the config or the
\* manifest counting as success), and dest names what it named before.
C12_CombineAgainSucceeds ==
    \A p \in Recombined :
        /\ hist[p].cmb.err = NoErr
        /\ Resolve(CombineDest) = hist[p].cmb.dest0

-----------------------------------------------------------------------------
(* resolveCombinations *)

\* Combinations an input list may hold
MaxCombinations == 3

ChunkCombination(name, ref, chunks) == [Name |-> name, Ref |-> ref, Chunks |-> chunks]

\* The strings of the model in the order of Go's < on strings
StringOrder == <<"a", "b", "c", "d", "k1", "k2", "k3", "k4", "not-found", "shared">>
Rank(x) == CHOOSE i \in 1..Len(StringOrder) : StringOrder[i] = x
Less(x, y) == Rank(x) < Rank(y)

\* sort.Strings over the keys of a map: the elements of S in ascending order
SortStrings(S) ==
    CHOOSE q \in [1..Cardinality(S) -> S] : \A i, j \in DOMAIN q : i < j => Less(q[i], q[j])

Elems(q) == {q[i] : i \in 1..Len(q)}

\* resolveCombinations, lines 225-235: idx, an entry replacing the earlier entries
\* of its name; Chunks is the set of the entry's chunks
idx(ipt) ==
    [n \in {ipt[i].Name : i \in 1..Len(ipt)} |->
        LET last == CHOOSE i \in 1..Len(ipt) :
                        ipt[i].Name = n /\ \A j \in (i + 1)..Len(ipt) : ipt[j].Name # n
        IN [Ref |-> ipt[last].Ref, Chunks |-> Elems(ipt[last].Chunks)]]

\* The first reference of combination n, if any of its references is unknown
firstRef(ix, n) ==
    IF \A i \in 1..Len(ix[n].Ref) : ix[n].Ref[i] \in DOMAIN ix THEN None
    ELSE Some(ix[n].Ref[1])

\* lines 237-241: the first reference of combination n that idx does not hold
unknownRef(ix, n) ==
    LET bad == {i \in 1..Len(ix[n].Ref) : ix[n].Ref[i] \notin DOMAIN ix}
    IN IF bad = {} THEN None
       ELSE Some(ix[n].Ref[CHOOSE i \in bad : \A j \in bad : i <= j])

\* One pass only
noIterations(ix) == 0

\* line 248: iterations
iterations0(ix) == Cardinality(DOMAIN ix) + 1

\* resolveCombinations, lines 225-249: the index is built and the references are
\* linked, in map order: the first unknown reference met ends the call
resolveCombinations ==
    /\ input # None
    /\ output = None
    /\ LET ix == idx(input)
           bad == {n \in DOMAIN ix : unknownRef(ix, n) # None}
       IN IF bad # {}
          THEN \E n \in bad :
                 output' = [stage |-> "returned", idx |-> ix, changed |-> TRUE,
                            iterations |-> 0, passes |-> 0, res |-> None,
                            err |-> Some(<<"unknown combination", unknownRef(ix, n)[1], n>>)]
          ELSE output' = [stage |-> "loop", idx |-> ix, changed |-> TRUE,
                          iterations |-> iterations0(ix), passes |-> 0, res |-> None,
                          err |-> None]
    /\ UNCHANGED <<engine, input>>

\* lines 253-263: combination n takes the chunks of the combinations it references
visit(st, n) ==
    LET more == UNION {st.idx[st.idx[n].Ref[i]].Chunks : i \in 1..Len(st.idx[n].Ref)}
    IN [idx |-> [st.idx EXCEPT ![n].Chunks = @ \cup more],
        changed |-> st.changed \/ ~(more \subseteq st.idx[n].Chunks)]

\* lines 251-264: one pass over idx in the order the map range takes
RECURSIVE pass(_, _)
pass(st, order) ==
    IF order = <<>> THEN st ELSE pass(visit(st, Head(order)), Tail(order))

\* lines 250-265: one iteration of the loop
resolveCombinations_pass ==
    /\ output # None
    /\ output.stage = "loop"
    /\ output.changed /\ output.iterations >= 0
    /\ \E order \in MapOrders(DOMAIN output.idx) :
         LET st == pass([idx |-> output.idx, changed |-> FALSE], order)
         IN output' = [output EXCEPT !.idx = st.idx, !.changed = st.changed,
                                     !.iterations = @ - 1, !.passes = @ + 1]
    /\ UNCHANGED <<engine, input>>

\* The chunks in descending order
descendingChunks(S) ==
    CHOOSE q \in [1..Cardinality(S) -> S] : \A i, j \in DOMAIN q : i < j => Less(q[j], q[i])

\* lines 272-276: the chunks of an entry as they are returned
sortedChunks(S) == SortStrings(S)

\* lines 270-285: one entry per name with its chunks sorted, the entries sorted by name
resolved(ix) ==
    LET names == SortStrings(DOMAIN ix)
    IN [i \in 1..Len(names) |->
          [Name |-> names[i], Chunks |-> sortedChunks(ix[names[i]].Chunks)]]

\* lines 266-285: the loop is left; the result is returned
resolveCombinations_return ==
    /\ output # None
    /\ output.stage = "loop"
    /\ ~(output.changed /\ output.iterations >= 0)
    /\ output' = IF output.changed /\ output.iterations = 0
                 THEN [output EXCEPT !.stage = "returned",
                                     !.err = Some(<<"could not resolve", "", "">>)]
                 ELSE [output EXCEPT !.stage = "returned", !.res = Some(resolved(output.idx))]
    /\ UNCHANGED <<engine, input>>

\* LoadFromDir, lines 176-179: without the combinations there is no project
LoadFromDir ==
    /\ output # None
    /\ output.stage = "returned"
    /\ output' = [output EXCEPT !.stage = IF output.err # None THEN "failed" ELSE "loaded"]
    /\ UNCHANGED <<engine, input>>

\* The entries an input list may hold at each place
Entries(i) ==
    IF i <= 3
    THEN {ChunkCombination(n, r, c) :
            n \in (IF i = 1 THEN {"a"} ELSE IF i = 2 THEN {"a", "b"} ELSE {"b", "c"}),
            r \in {<<>>, <<"a">>, <<"b">>, <<"c">>, <<"b", "c">>, <<"not-found">>,
                   <<"a", "not-found">>},
            c \in (IF i = 1 THEN {<<>>, <<"k1">>, <<"shared", "k1", "shared">>}
                   ELSE IF i = 2 THEN {<<"k2">>, <<"shared">>}
                   ELSE {<<"k3">>, <<"shared", "k3">>})}
    ELSE {ChunkCombination("d", r, <<"k4">>) : r \in {<<"a">>, <<"c">>}}

\* The input lists of n entries
RECURSIVE CombinationLists(_)
CombinationLists(n) ==
    IF n = 0 THEN {<<>>}
    ELSE {Append(q, e) : q \in CombinationLists(n - 1), e \in Entries(n)}

ResolveInit ==
    /\ EngineIdle
    /\ output = None
    /\ \E n \in 0..MaxCombinations : input \in CombinationLists(n)

ResolveNext ==
    \/ resolveCombinations
    \/ resolveCombinations_pass
    \/ resolveCombinations_return
    \/ LoadFromDir

ResolveSpec == ResolveInit /\ [][ResolveNext]_vars

-----------------------------------------------------------------------------
(* The specification: mergeEnv over the configs of a base and its picks *)

\* Chunks a Combine call may pick
MaxPicks == 2

\* Combine, lines 109-145: cfgs holds the base's config and then those of the
\* picks, and env is mergeEnv(basecfg, cfgs), listed in map order (296-304).
\* p.Config.Combiner.EnvVars is not read
Combine_mergeEnv ==
    /\ input # None
    /\ output = None
    /\ LET cfgs == <<input.base>> \o input.chunks
           envs == mergeEnv(input.base, cfgs)
       IN IF envs = None
          THEN output' = [env |-> None, err |-> "env var in invalid"]
          ELSE \E order \in MapOrders(DOMAIN envs[1]) :
                 output' = [env |-> Some([i \in 1..Len(order) |->
                                             EnvEntry(order[i], envs[1][order[i]])]),
                            err |-> ""]
    /\ UNCHANGED <<engine, input>>

\* Config.Env of the images
EnvLists ==
    {<<>>,
     <<EnvEntry("PATH", <<"first">>)>>,
     <<EnvEntry("PATH", <<"first", ":", "common">>)>>,
     <<EnvEntry("PATH", <<"fourth", ":", "fourth", ":", "common">>)>>,
     <<EnvEntry("PATH", <<"first", ":", "common">>), EnvEntry("HOME", <<"/root">>)>>,
     <<EnvEntry("HOME", <<"/home/gitpod">>)>>,
     <<<<"BROKEN">>>>,
     <<<<"OPTS", <<"a">>, <<"b">>>>>>}

\* p.Config.Combiner.EnvVars
EnvVarLists ==
    {<<>>,
     <<[Name |-> "PATH", Action |-> "merge"]>>,
     <<[Name |-> "PATH", Action |-> "merge-unique"]>>}

MergeEnvInit ==
    /\ EngineIdle
    /\ output = None
    /\ input \in [base : EnvLists,
                   chunks : UNION {[1..n -> EnvLists] : n \in 0..MaxPicks},
                   vars : EnvVarLists]

MergeEnvNext == Combine_mergeEnv

MergeEnvSpec == MergeEnvInit /\ [][MergeEnvNext]_vars

-----------------------------------------------------------------------------
(* Fingerprints *)

\* The chunk directories of the two projects differ in test files at most, and the
\* sessions have the same base
DifferInTestsOnly ==
    /\ [input.left.dir EXCEPT !.Tests = <<>>] = [input.right.dir EXCEPT !.Tests = <<>>]
    /\ input.left.baseref = input.right.baseref

Hashed == output # None /\ output.stage = "hashed"

\* C13: the without-tests fingerprint of a chunk (the one of its full and chunked
\* tags) is the same in two projects that differ only in test files, of this chunk or
\* of another.
C13_TestsDoNotChangeTheFingerprint ==
    (Hashed /\ DifferInTestsOnly)
    => /\ Len(output.left) = Len(output.right)
       /\ \A i \in 1..Len(output.left) :
             output.left[i].ExcludeTests = output.right[i].ExcludeTests

\* Two projects of which one has tests for the chunk and the other has not, or has
\* others: the with-tests fingerprints differ, the without-tests ones do not
C13_Witness ==
    /\ Hashed
    /\ DifferInTestsOnly
    /\ LoadedName \in DOMAIN input.left.dir.Tests
    /\ output.left[1].chunk.Tests # output.right[1].chunk.Tests
    /\ output.left[1].WithTests # output.right[1].WithTests
    /\ output.left[1].ExcludeTests = output.right[1].ExcludeTests

\* The fingerprinted chunks of the two projects, each with the base of its session
AllHashed ==
    IF Hashed
    THEN {output.left[i] : i \in 1..Len(output.left)}
         \cup {output.right[j] : j \in 1..Len(output.right)}
    ELSE {}

\* The pairs of a chunk that has tests and another
HashedPairs == {lr \in AllHashed \X AllHashed : lr[1].chunk.Tests # <<>>}

\* C14: the with-tests fingerprint of a chunk that has tests differs between two
\* projects whose serialized test lists for the chunk differ; where the lists are
\* equal it differs exactly when the without-tests fingerprint differs.
C14_TestsChangeTheTestFingerprint ==
    \A lr \in HashedPairs :
        IF MarshalTests(lr[1].chunk.Tests) # MarshalTests(lr[2].chunk.Tests)
        THEN lr[1].WithTests # lr[2].WithTests
        ELSE (lr[1].WithTests # lr[2].WithTests) <=> (lr[1].ExcludeTests # lr[2].ExcludeTests)

\* Both cases: test lists that differ over the same Dockerfile and context, and equal
\* test lists over different Dockerfiles
C14_Witness ==
    /\ \E lr \in HashedPairs :
          /\ lr[1].chunk.Tests # lr[2].chunk.Tests
          /\ lr[2].chunk.Tests # <<>>
          /\ lr[1].ExcludeTests = lr[2].ExcludeTests
          /\ lr[1].WithTests # lr[2].WithTests
    /\ \E lr \in HashedPairs :
          /\ lr[1].chunk.Tests = lr[2].chunk.Tests
          /\ lr[1].ExcludeTests # lr[2].ExcludeTests
          /\ lr[1].WithTests # lr[2].WithTests

\* The pairs of variants of one chunk that share Dockerfile, context and tests and
\* differ in their build args
VariantsByArgs ==
    IF Hashed
    THEN {vw \in {<<output.left[i], output.left[j]>> : i, j \in 1..Len(output.left)} :
            /\ vw[1].chunk.Dockerfile = vw[2].chunk.Dockerfile
            /\ vw[1].chunk.Sources = vw[2].chunk.Sources
            /\ vw[1].chunk.Tests = vw[2].chunk.Tests
            /\ vw[1].chunk.Args # vw[2].chunk.Args}
    ELSE {}

\* C15: two variants of one chunk that share the Dockerfile, the context and the
\* tests but differ in their build args get different fingerprints.
C15_VariantsGetDifferentFingerprints ==
    \A vw \in VariantsByArgs :
        /\ vw[1].ExcludeTests # vw[2].ExcludeTests
        /\ vw[1].WithTests # vw[2].WithTests

-----------------------------------------------------------------------------
(* Combinations *)

\* The names of the input list; the combination a name denotes is the last entry of
\* that name
CombinationNames == {input[i].Name : i \in 1..Len(input)}
Named(n) ==
    input[CHOOSE i \in 1..Len(input) :
            input[i].Name = n /\ \A j \in (i + 1)..Len(input) : input[j].Name # n]
RefsOf(n) == Elems(Named(n).Ref)
AllRefsKnown == \A n \in CombinationNames : RefsOf(n) \subseteq CombinationNames

\* The combinations reachable from n over at most k ref edges
RECURSIVE ReachWithin(_, _)
ReachWithin(n, k) ==
    IF k = 0 THEN {n}
    ELSE LET r == ReachWithin(n, k - 1) IN r \cup UNION {RefsOf(m) : m \in r}
Reachable(n) == ReachWithin(n, Len(input))

Ascending(q) == \A i, j \in 1..Len(q) : i < j => Less(q[i], q[j])

ResolveReturned == output # None /\ output.stage \in {"returned", "loaded", "failed"}

\* C16: when every ref names a combination of the list, resolveCombinations returns
\* without error one entry per combination name, ordered by name, whose chunks are
\* the sorted, duplicate-free union of the own chunks of every combination reachable
\* from it over ref edges, whatever the map iteration order.
C16_ResolvesTheTransitiveUnion ==
    (ResolveReturned /\ AllRefsKnown)
    => /\ output.err = None
       /\ output.res # None
       /\ LET res == output.res[1]
          IN /\ Len(res) = Cardinality(CombinationNames)
             /\ {res[i].Name : i \in 1..Len(res)} = CombinationNames
             /\ Ascending([i \in 1..Len(res) |-> res[i].Name])
             /\ \A i \in 1..Len(res) :
                   /\ Ascending(res[i].Chunks)
                   /\ Elems(res[i].Chunks)
                        = UNION {Elems(Named(m).Chunks) : m \in Reachable(res[i].Name)}

\* Three combinations returned, one of which has chunks it has neither itself nor
\* from a combination it references directly, another having a chunk twice
C16_Witness ==
    /\ ResolveReturned
    /\ AllRefsKnown
    /\ output.res # None
    /\ Len(output.res[1]) = 3
    /\ \E i \in 1..3 :
          LET n == output.res[1][i].Name
          IN ~(Elems(output.res[1][i].Chunks)
                 \subseteq UNION {Elems(Named(m).Chunks) : m \in {n} \cup RefsOf(n)})
    /\ \E n \in CombinationNames : Len(Named(n).Chunks) > Cardinality(Elems(Named(n).Chunks))

\* C17: for every input and map iteration order the fixed-point loop is left after at
\* most len(input)+1 passes, and the chunk sets then returned are a fixed point: no
\* combination lacks a chunk of a combination it references.
C17_LoopEndsAtAFixedPoint ==
    (output # None /\ output.stage \in {"loop", "returned", "loaded", "failed"} /\ AllRefsKnown)
    => /\ output.passes <= Len(input) + 1
       /\ ResolveReturned
          => /\ output.res # None
             /\ \A i, j \in 1..Len(output.res[1]) :
                   output.res[1][j].Name \in RefsOf(output.res[1][i].Name)
                   => Elems(output.res[1][j].Chunks) \subseteq Elems(output.res[1][i].Chunks)

\* The loop was left after as many passes as there are combinations, each but the
\* last having added chunks
C17_Witness ==
    /\ ResolveReturned
    /\ AllRefsKnown
    /\ Len(input) = MaxCombinations
    /\ output.passes = Len(input)
    /\ output.res # None

\* C18: if a combination references a name that is no combination of the input,
\* resolveCombinations, and with it the project load, fails with an error naming the
\* unknown reference and the referencing combination, and returns no combinations.
C18_UnknownRefFailsTheLoad ==
    (ResolveReturned /\ ~AllRefsKnown)
    => /\ output.stage # "loaded"
       /\ output.res = None
       /\ output.err # None
       /\ output.err[1][1] = "unknown combination"
       /\ output.err[1][3] \in CombinationNames
       /\ output.err[1][2] \in RefsOf(output.err[1][3]) \ CombinationNames

\* The load failed naming a combination whose unknown reference follows a known one,
\* another combination having an unknown reference too
C18_Witness ==
    /\ output # None
    /\ output.stage = "failed"
    /\ ~AllRefsKnown
    /\ Named(output.err[1][3]).Ref[1] \in CombinationNames
    /\ \E n \in CombinationNames \ {output.err[1][3]} : ~(RefsOf(n) \subseteq CombinationNames)

-----------------------------------------------------------------------------
(* The env of a combined image *)

\* The value an image's env gives NAME, None when it gives none
ValueIn(es, name) ==
    LET at == {i \in 1..Len(es) : es[i][1] = name}
    IN IF at = {} THEN None ELSE Some(es[CHOOSE i \in at : \A j \in at : j <= i][2])

\* The values base and picks give NAME, in the order base, chunk_1, ..., chunk_k
RECURSIVE Contributions(_, _)
Contributions(imgs, name) ==
    IF imgs = <<>> THEN <<>>
    ELSE ValueIn(Head(imgs), name) \o Contributions(Tail(imgs), name)

RECURSIVE JoinValues(_, _)
JoinValues(vs, sep) ==
    IF vs = <<>> THEN <<>>
    ELSE IF Len(vs) = 1 THEN vs[1]
    ELSE vs[1] \o <<sep>> \o JoinValues(Tail(vs), sep)

\* strings.Split(value, ":")
IsSeparator(t) == t \in {":", ";"}
Segments(v) == SelectSeq(v, LAMBDA t : ~IsSeparator(t))

RECURSIVE AllSegments(_)
AllSegments(vs) == IF vs = <<>> THEN <<>> ELSE Segments(Head(vs)) \o AllSegments(Tail(vs))

\* The first occurrences, in order
RECURSIVE Unique(_, _)
Unique(q, seen) ==
    IF q = <<>> THEN <<>>
    ELSE IF Head(q) \in seen THEN Unique(Tail(q), seen)
    ELSE <<Head(q)>> \o Unique(Tail(q), seen \cup {Head(q)})

\* The policy configured for NAME, merge when there is none
PolicyOf(name) ==
    LET at == {i \in 1..Len(input.vars) : input.vars[i].Name = name}
    IN IF at = {} THEN "merge" ELSE input.vars[CHOOSE i \in at : TRUE].Action

WellFormed(es) == \A i \in 1..Len(es) : Len(es[i]) = 2

\* Combine has computed the env of a combined image from well-formed envs
EnvMerged ==
    /\ output # None
    /\ WellFormed(input.base)
    /\ \A i \in 1..Len(input.chunks) : WellFormed(input.chunks[i])

EnvNames == {"PATH", "HOME"}

\* C19: in the env of a combined image a variable NAME with policy merge, or with no
\* policy, has the base's value followed by each picked chunk's value for NAME in
\* pick order, joined with ':', each contribution once and without deduplication.
C19_MergeJoinsInPickOrder ==
    EnvMerged
    => /\ output.env # None
       /\ \A name \in EnvNames :
             PolicyOf(name) = "merge"
             => ValueIn(output.env[1], name)
                  = LET cs == Contributions(<<input.base>> \o input.chunks, name)
                    IN IF cs = <<>> THEN None ELSE Some(JoinValues(cs, ":"))

\* C20: with policy merge-unique for NAME the merged value is the ':'-separated
\* segments of the base's value and then of each chunk's value in pick order, a
\* segment that occurred before being dropped, first occurrences keeping their order.
C20_MergeUniqueDropsRepeats ==
    EnvMerged
    => /\ output.env # None
       /\ \A name \in EnvNames :
             PolicyOf(name) = "merge-unique"
             => ValueIn(output.env[1], name)
                  = LET cs == Contributions(<<input.base>> \o input.chunks, name)
                        segs == Unique(AllSegments(cs), {})
                    IN IF cs = <<>> THEN None
                       ELSE Some(JoinValues([i \in 1..Len(segs) |-> <<segs[i]>>], ":"))

-----------------------------------------------------------------------------
(* Combining images whose env has an entry that is not NAME=VALUE *)

\* An env with an entry that does not split on "=" into two fields
Malformed(es) == \E i \in 1..Len(es) : Len(es[i]) # 2

\* The Combine calls that returned and whose base or picked chunks, all of the
\* project, have such an entry
CombinedMalformed ==
    {p \in Procs :
        /\ hist[p].cmb.returned
        /\ \A i \in 1..Len(hist[p].cmb.picks) : hist[p].cmb.picks[i] \in ChunkNames
        /\ \/ Malformed(project.env["base"])
           \/ \E i \in 1..Len(hist[p].cmb.picks) : Malformed(project.env[hist[p].cmb.picks[i]])}

\* C21: if an env entry of the base or of a picked chunk does not split on "=" into
\* exactly two fields, Combine returns an error and has pushed neither a config nor
\* a manifest.
C21_MalformedEnvFailsBeforeAnyPush ==
    \A p \in CombinedMalformed :
        /\ hist[p].cmb.err # NoErr
        /\ PushedTo(p) = {}

\* Combine pulled the base and two built chunks, the second of which has an entry
\* with two "=", and returned the env error
C21_Witness ==
    \E p \in CombinedMalformed :
        /\ hist[p].cmb.err[1] = "MalformedEnv"
        /\ Len(hist[p].cmb.picks) = 2
        /\ ~Malformed(project.env["base"])
        /\ Malformed(project.env[hist[p].cmb.picks[2]])

-----------------------------------------------------------------------------
(* Sessions created with WithNoTests(true) *)

\* The builds whose session was created with WithNoTests(true)
BuiltWithNoTests == {p \in Procs : hist[p].withNoTests}

\* C22: in a session created with WithNoTests(true), Build builds no test image and
\* runs no tests for any chunk, whether or not the chunk has tests.
C22_NoTestsBuildsAndRunsNoTests ==
    \A p \in BuiltWithNoTests :
        /\ hist[p].didRun = {}
        /\ \A op \in OpsOf(hist[p].ops) :
              /\ op[1] # "runtests"
              /\ ~(op[1] = "solve" /\ op[2] = ImageTypeTest)

-----------------------------------------------------------------------------
(* The session: its base and its ledger *)

\* C25: a Session accepts baseBuildFinished once: a Build on a session whose base is
\* recorded does not get past a second call to its chunks, and baseRef, baseMF and
\* baseCfg stay as they were first set.
C25_BaseBuildFinishedOnce ==
    [][\A p \in Procs :
          (pc[p] # "idle" /\ sess[p].baseRef # None /\ loc[p].i = 0)
          => /\ loc'[p].i = 0
             /\ sess'[p].baseRef = sess[p].baseRef
             /\ sess'[p].baseMF = sess[p].baseMF
             /\ sess'[p].baseCfg = sess[p].baseCfg]_vars

\* C26: the ledger of a session only grows: a ref that recordChunk stored stays in
\* the ledger through every later step made with that session, the recording of
\* another chunk, the failing of a later chunk and the return of Build included.
C26_LedgerOnlyGrows ==
    [][\A p \in Procs :
          (pc[p] # "idle" \/ sess'[p] = sess[p])
          => \A ref \in DOMAIN sess[p].chunks : ref \in DOMAIN sess'[p].chunks]_vars

\* Build returned an error for the second chunk and the ledger holds the first
C26_Witness ==
    \E p \in Procs :
        /\ pc[p] = "idle"
        /\ prev[p].status = "failed"
        /\ prev[p].chunk = project.chunks[2]
        /\ \E ref \in DOMAIN sess[p].chunks : ref.tag[1] = project.chunks[1]
        /\ \A ref \in DOMAIN sess[p].chunks : ref.tag[1] # project.chunks[2]

-----------------------------------------------------------------------------
(* removeBaseLayer on a full image shorter than the base *)

\* The removeBaseLayer calls that returned and whose full image has fewer layers or
\* fewer diff-IDs than the base has layers
ShorterThanBase ==
    {p \in Procs :
        /\ hist[p].rbl.chunk # ""
        /\ hist[p].rbl.full # None
        /\ hist[p].rbl.basemf # None
        /\ \/ Len(hist[p].rbl.full[1].layers) < Len(hist[p].rbl.basemf[1].layers)
           \/ Len(CfgOf(hist[p].rbl.full[1]).diffIDs) < Len(hist[p].rbl.basemf[1].layers)}

\* C27: if the full image has fewer layers or fewer diff-IDs than the base has
\* layers, removeBaseLayer returns a not-built-from-base error, without reading a
\* list past its end and without a push.
C27_ShortChunkIsRefused ==
    \A p \in ShorterThanBase :
        /\ hist[p].rbl.err[1] = "NotBuiltFromBase"
        /\ hist[p].rbl.returned = None
        /\ ~hist[p].rbl.didbuild

-----------------------------------------------------------------------------
(* The order of the work of a Build *)

\* The solver calls, test runs and pushes logged for the base and the chunks
BuildOps(ops) ==
    SelectSeq(ops, LAMBDA o : o[2] \notin {"combined config", "combined manifest"})

\* The place of an operation's image in the Build: the base, then p.Chunks in order
Place(o) == IF o[3] = "base" THEN 0 ELSE Idx(o[3])

\* The chunked image name of the j-th chunk in the session of process p
ChunkedRef(p, j) == ImageName(p, project.chunks[j], ChunkedType(sess[p]))

\* C28: in a Build the operations come in the order base, C_1, C_2, ...; while the
\* Build works on a chunk, the rewritten base manifest (if the options ask for one)
\* is pushed under the base tag, and the chunked manifest of every earlier chunk is
\* pushed under its name and recorded in the ledger.
C28_ChunksAreBuiltInOrder ==
    \A p \in Procs :
        /\ LET ops == BuildOps(hist[p].ops)
           IN \A i, j \in 1..Len(ops) : i < j => Place(ops[i]) <= Place(ops[j])
        /\ loc[p].i >= 1
           => /\ (sess[p].noHash /\ sess[p].envOn)
                   => /\ sess[p].baseMF[1] = WithEnvAnnotations(sess[p].baseMF[1], sess[p].envVars)
                      /\ Resolve([sess[p].baseRef[1] EXCEPT !.dgst = None]) = sess[p].baseMF
              /\ \A j \in 1..(loc[p].i - 1) :
                    /\ ChunkedRef(p, j) \in DOMAIN sess[p].chunks
                    /\ Resolve(ChunkedRef(p, j)) = Some(sess[p].chunks[ChunkedRef(p, j)])

\* A first Build with a rewritten base manifest is at work on its second chunk, after
\* solver calls for the base and for the first chunk
C28_Witness ==
    \E p \in Procs :
        /\ loc[p].i = 2
        /\ pc[p] = "buildImage_solve"
        /\ sess[p].noHash /\ sess[p].envOn
        /\ prev[p].status = "none"
        /\ Op("solve", "base", "base") \in OpsOf(hist[p].ops)
        /\ Op("commit", "manifest", "base") \in OpsOf(hist[p].ops)
        /\ Op("push", "chunked manifest", project.chunks[1]) \in OpsOf(hist[p].ops)

-----------------------------------------------------------------------------
(* What a repository holds when a manifest is committed to it *)

\* The config and the layers of mf are blobs of repo
HoldsBlobsOf(repo, mf) ==
    /\ HasBlob(repo, mf.config.digest)
    /\ \A i \in 1..Len(mf.layers) : HasBlob(repo, mf.layers[i].digest)

C30_CombinedBlobsBeforeManifest ==
    [][\A p \in Procs :
          (pc[p] = "Combine_pushManifest" /\ tags' # tags)
          => HoldsBlobsOf(loc[p].dest[1].repo, loc[p].chkmf[1])]_vars

-----------------------------------------------------------------------------
(* pkg/test: RunTests, Spec.Run and ValidateAssertions *)

\* RunResult: what a test container produced
RunResult(stdout, status) == [Stdout |-> stdout, StatusCode |-> status]

\* Executor.Run of the model: what running s.Command gives. A command that cannot be
\* started is an error of the executor; a command that exits with a non-zero status
\* is a RunResult like any other (test.go 146-148).
Executor(s) ==
    CASE s.Command = <<"echo", "foobar">> -> [res |-> Some(RunResult("foobar", 0)), err |-> None]
      [] s.Command = <<"sh", "-c", "echo foobar; exit 1">>
                                          -> [res |-> Some(RunResult("foobar", 1)), err |-> None]
      [] s.Command = <<"false">>          -> [res |-> Some(RunResult("", 1)), err |-> None]
      [] OTHER                            -> [res |-> None, err |-> Some("executable file not found")]

Commands == {<<"echo", "foobar">>, <<"sh", "-c", "echo foobar; exit 1">>, <<"false">>,
             <<"missing">>}

\* Values of the JavaScript VM
JsBoolean(b) == [type |-> "boolean", b |-> b]
JsNumber == [type |-> "number", b |-> FALSE]

\* vm.Run(assertion) with stdout, stderr and status set from runres: the value the
\* expression yields, or the error it throws
Otto(assertion, runres) ==
    CASE assertion = "status == 0"       -> [val |-> JsBoolean(runres.StatusCode = 0), err |-> None]
      [] assertion = "stdout.length > 0" -> [val |-> JsBoolean(runres.Stdout # ""), err |-> None]
      [] assertion = "stdout.length"     -> [val |-> JsNumber, err |-> None]
      [] OTHER -> [val |-> JsNumber, err |-> Some("ReferenceError: 'nope' is not defined")]

AssertionTexts == {"status == 0", "stdout.length > 0", "stdout.length", "nope()"}

IsBoolean(val) == val.type = "boolean"

ErrResult(message, type) == [Message |-> message, Type |-> type]

\* The loop of ValidateAssertions from assertion i on; log lists the calls made
RECURSIVE validateFrom(_, _, _, _, _)
validateFrom(res, assertions, runres, i, log) ==
    IF i > Len(assertions) THEN [res |-> res, err |-> None, log |-> log]
    ELSE LET assertion == assertions[i]
             ran == Otto(assertion, runres)
             log1 == Append(log, <<"vm.Run", assertion>>)
         IN IF ran.err # None THEN [res |-> res, err |-> ran.err, log |-> log1]
            ELSE IF ~IsBoolean(ran.val)
            THEN [res |-> res, err |-> Some("assertion must evaluate to boolean value"),
                  log |-> log1]
            ELSE IF ~ran.val.b
            THEN [res |-> [res EXCEPT !.Failure =
                              Some(ErrResult("assertion failed: " \o assertion, ""))],
                  err |-> None, log |-> log1]
            ELSE validateFrom(res, assertions, runres, i + 1, log1)

\* ValidateAssertions without the break of line 260: every assertion up to the first
\* error is evaluated and the last false one is the failure
validateWithoutBreak(res, assertions, runres) ==
    LET vals == [k \in 1..Len(assertions) |-> Otto(assertions[k], runres)]
        bad == {k \in 1..Len(assertions) : vals[k].err # None \/ ~IsBoolean(vals[k].val)}
        n == IF bad = {} THEN Len(assertions)
             ELSE CHOOSE k \in bad : \A j \in bad : k <= j
        done == IF bad = {} THEN n ELSE n - 1
        fails == {k \in 1..done : ~vals[k].val.b}
        last == CHOOSE k \in fails : \A j \in fails : j <= k
    IN [res |-> IF fails = {} THEN res
                ELSE [res EXCEPT !.Failure =
                         Some(ErrResult("assertion failed: " \o assertions[last], ""))],
        err |-> IF bad = {} THEN None
                ELSE IF vals[n].err # None THEN vals[n].err
                ELSE Some("assertion must evaluate to boolean value"),
        log |-> [k \in 1..n |-> <<"vm.Run", assertions[k]>>]]

ValidateAssertions(res, assertions, runres) == validateFrom(res, assertions, runres, 1, <<>>)

\* Spec.Run that hands a skipped test to the executor like any other
runSkippedToo(s) ==
    LET res == [Desc |-> s.Desc, Skipped |-> s.Skip, Error |-> None, Failure |-> None,
                RunResult |-> None]
        ran == Executor(s)
        log == <<<<"executor.Run", s.Desc>>>>
    IN IF ran.err # None
       THEN [res |-> [res EXCEPT !.Error = Some(ErrResult(ran.err[1], "runtime"))], log |-> log]
       ELSE LET v == ValidateAssertions([res EXCEPT !.RunResult = ran.res], s.Assertions,
                                        ran.res[1])
            IN [res |-> IF v.err # None
                        THEN [v.res EXCEPT !.Error = Some(ErrResult(v.err[1], "assertion"))]
                        ELSE v.res,
                log |-> log \o v.log]

\* Spec.Run: the Result of one test, and the calls made to the executor and the VM
Run(s) ==
    LET res == [Desc |-> s.Desc, Skipped |-> s.Skip, Error |-> None, Failure |-> None,
                RunResult |-> None]
        ran == Executor(s)
        log == <<<<"executor.Run", s.Desc>>>>
    IN IF s.Skip THEN [res |-> res, log |-> <<>>]
       ELSE IF ran.err # None
       THEN [res |-> [res EXCEPT !.Error = Some(ErrResult(ran.err[1], "runtime"))], log |-> log]
       ELSE LET v == ValidateAssertions([res EXCEPT !.RunResult = ran.res], s.Assertions,
                                        ran.res[1])
            IN [res |-> IF v.err # None
                        THEN [v.res EXCEPT !.Error = Some(ErrResult(v.err[1], "assertion"))]
                        ELSE v.res,
                log |-> log \o v.log]

\* The loop of RunTests from test i on
RECURSIVE runFrom(_, _, _, _, _)
runFrom(tests, i, results, success, log) ==
    IF i > Len(tests) THEN [res |-> results, success |-> success, log |-> log]
    ELSE LET r == Run(tests[i])
         IN runFrom(tests, i + 1, Append(results, r.res),
                    IF r.res.Error # None \/ r.res.Failure # None THEN FALSE ELSE success,
                    log \o r.log)

RunTests(tests) == runFrom(tests, 1, <<>>, TRUE, <<>>)

\* A test of tests.yaml; the description tells the tests of a suite apart
TestSpec(i, skip, command, assertions) ==
    [Desc |-> ToString(i), Skip |-> skip, Command |-> command, Assertions |-> assertions]

\* The assertion lists of the tests of a suite
SuiteAssertions ==
    {<<>>, <<"status == 0">>, <<"stdout.length > 0", "nope()">>, <<"stdout.length">>}

-----------------------------------------------------------------------------
(* The specification: RunTests over a suite *)

RunTestsInit ==
    /\ EngineIdle
    /\ output = None
    /\ \E n \in 0..MaxTests :
          \E skip \in [1..n -> BOOLEAN], command \in [1..n -> Commands],
             assertions \in [1..n -> SuiteAssertions] :
             input = [i \in 1..n |-> TestSpec(i, skip[i], command[i], assertions[i])]

Suite_RunTests ==
    /\ output = None
    /\ output' = Some(RunTests(input))
    /\ UNCHANGED <<engine, input>>

RunTestsNext == Suite_RunTests

RunTestsSpec == RunTestsInit /\ [][RunTestsNext]_vars

\* Every assertion of s evaluates to true on what the executor made of s.Command
Passes(s) ==
    /\ Executor(s).err = None
    /\ \A k \in 1..Len(s.Assertions) :
          Otto(s.Assertions[k], Executor(s).res[1]) = [val |-> JsBoolean(TRUE), err |-> None]

\* C23: RunTests answers success = true exactly when every test that is not skipped
\* ran without an error and without a failed assertion; a skipped test is never handed
\* to the executor, has neither error nor failure, and every other test is handed to
\* the executor once.
C23_SuccessIffNonSkippedPass ==
    output # None =>
        LET out == output[1]
            handed == SelectSeq(out.log, LAMBDA e : e[1] = "executor.Run")
            notSkipped == SelectSeq(input, LAMBDA s : ~s.Skip)
        IN /\ out.success = (\A i \in 1..Len(input) : input[i].Skip \/ Passes(input[i]))
           /\ Len(out.res) = Len(input)
           /\ handed = [k \in 1..Len(notSkipped) |-> <<"executor.Run", notSkipped[k].Desc>>]
           /\ \A i \in 1..Len(input) :
                 input[i].Skip => /\ out.res[i].Skipped
                                  /\ out.res[i].Error = None
                                  /\ out.res[i].Failure = None

\* A suite of a passing test and a skipped test that would not pass was run: success
C23_Witness ==
    /\ output # None
    /\ output[1].success
    /\ \E i, j \in 1..Len(input) :
          /\ ~input[i].Skip
          /\ input[j].Skip /\ ~Passes(input[j])

-----------------------------------------------------------------------------
(* The specification: Spec.Run of one test *)

RunInit ==
    /\ EngineIdle
    /\ output = None
    /\ \E skip \in BOOLEAN, command \in Commands, n \in 0..MaxAssertions :
          \E assertions \in [1..n -> AssertionTexts] :
             input = TestSpec(1, skip, command, assertions)

Spec_Run ==
    /\ output = None
    /\ output' = Some(Run(input))
    /\ UNCHANGED <<engine, input>>

RunNext == Spec_Run

RunSpec == RunInit /\ [][RunNext]_vars

\* The assertions of s that do not evaluate to true on runres
NotTrue(s, runres) ==
    {k \in 1..Len(s.Assertions) :
        Otto(s.Assertions[k], runres) # [val |-> JsBoolean(TRUE), err |-> None]}

\* C24: the assertions of a test that ran are evaluated in order up to the first that
\* does not yield true and no further. If that one throws or yields a non-boolean the
\* result has an error of type assertion and no failure; if it yields false the result
\* has a failure with the text of that assertion and no error. When every assertion
\* yields true the result has neither, whatever the exit status.
C24_FirstBadAssertionDecides ==
    (output # None /\ ~input.Skip /\ Executor(input).err = None) =>
        LET res == output[1].res
            runres == Executor(input).res[1]
            evaluated == SelectSeq(output[1].log, LAMBDA e : e[1] = "vm.Run")
            bad == NotTrue(input, runres)
            first == CHOOSE k \in bad : \A j \in bad : k <= j
            ran == Otto(input.Assertions[first], runres)
        IN IF bad = {}
           THEN /\ res.Error = None /\ res.Failure = None
                /\ evaluated = [k \in 1..Len(input.Assertions) |->
                                  <<"vm.Run", input.Assertions[k]>>]
           ELSE /\ evaluated = [k \in 1..first |-> <<"vm.Run", input.Assertions[k]>>]
                /\ IF ran.err # None \/ ~IsBoolean(ran.val)
                   THEN /\ res.Error # None /\ res.Error[1].Type = "assertion"
                        /\ res.Failure = None
                   ELSE /\ res.Failure =
                             Some(ErrResult("assertion failed: " \o input.Assertions[first], ""))
                        /\ res.Error = None

\* A test whose first assertion yields false and whose second would throw has run
C24_Witness ==
    /\ output # None
    /\ ~input.Skip
    /\ Len(input.Assertions) > 1
    /\ output[1].res.Failure # None
    /\ output[1].res.Error = None
    /\ Otto(input.Assertions[2], output[1].res.RunResult[1]).err # None

\* A test whose command exited with a non-zero status passed
C24_NonZeroStatusPasses ==
    /\ output # None
    /\ output[1].res.RunResult # None
    /\ output[1].res.RunResult[1].StatusCode # 0
    /\ input.Assertions # <<>>
    /\ output[1].res.Error = None
    /\ output[1].res.Failure = None

-----------------------------------------------------------------------------
(* The base manifest rewrite *)

\* The annotations the policies of a dazzle.yaml ask for
PolicyAnnotations(envVars) == {<<mfAnnotationEnvVar \o e[1], Some(e[2])>> : e \in envVars}

\* The processes whose session holds a finished base build of a run with env-var
\* policies and chunked-without-hash: at work on the chunks, or returned with nil
RewroteBase ==
    {p \in Procs : /\ sess[p].noHash /\ sess[p].envOn
                   /\ \/ loc[p].i >= 1
                      \/ pc[p] = "idle" /\ prev[p].status = "ok" /\ sess[p].baseRef # None}

\* C31: once the base build of a run with env-var policies and chunked-without-hash is
\* finished, and after the Build returned nil, the session's base manifest and the
\* manifest at the base tag carry the annotation of every configured policy, and the
\* session's baseRef is the base tag with the digest of that manifest.
C31_BaseRefNamesTheRewrittenManifest ==
    \A p \in RewroteBase :
        LET tag == [sess[p].baseRef[1] EXCEPT !.dgst = None]
        IN /\ PolicyAnnotations(sess[p].envVars) \subseteq sess[p].baseMF[1].annotations
           /\ Resolve(tag) = sess[p].baseMF
           /\ sess[p].baseRef[1] = WithDigest(BaseRef(cachedHash[p]), Digest(sess[p].baseMF[1]))

\* C32: the manifest Build pushes under the base tag has the config descriptor and the
\* layers of the base manifest it pulled and every annotation that manifest had.
C32_RewriteOnlyAddsAnnotations ==
    [][\A p \in Procs :
          (pc[p] = "Build_base" /\ pc'[p] = "Push_manifest")
          => LET pulled == Pull(loc[p].absbaseref[1]).mf[1]
                 pushed == loc'[p].push[1].mf
             IN /\ pushed.config = pulled.config
                /\ pushed.layers = pulled.layers
                /\ pulled.annotations \subseteq pushed.annotations]_vars

-----------------------------------------------------------------------------
(* Errors of the pre-existence check *)

\* C33: when the Resolve of the base, test or full image name answered an error other
\* than NotFound, the Build has returned that error and the solver was not called for
\* that image.
C33_ResolveErrorAbortsTheBuild ==
    \A p \in Procs :
        \A e \in hist[p].resolveErr :
            /\ Op("solve", e[1], e[2]) \notin OpsOf(hist[p].ops)
            /\ pc[p] = "idle"
            /\ prev[p].status = "failed"
            /\ prev[p].err[1] = e[3]

-----------------------------------------------------------------------------
(* The order of the tests of a suite *)

\* C34: RunTests hands the tests that are not skipped to the executor in declared
\* order, up to and including the first whose result is an error and none after it;
\* a failure stops nothing, and the results are those of the tests up to that one.
C34_SuiteStopsAtFirstError ==
    output # None =>
        LET out == output[1]
            errors == {i \in 1..Len(input) : Run(input[i]).res.Error # None}
            n == IF errors = {} THEN Len(input)
                 ELSE CHOOSE i \in errors : \A j \in errors : i <= j
            ran == SelectSeq(SubSeq(input, 1, n), LAMBDA s : ~s.Skip)
            handed == SelectSeq(out.log, LAMBDA e : e[1] = "executor.Run")
        IN /\ handed = [k \in 1..Len(ran) |-> <<"executor.Run", ran[k].Desc>>]
           /\ out.res = [i \in 1..n |-> Run(input[i]).res]

-----------------------------------------------------------------------------
(* The specification: RunTests step by step under a caller's context *)

\* context.Background() and the ctx that build or combine was given and that test
\* passes on to RunTests
Background == "background"
CallerCtx == "caller"

\* context.WithTimeout(parent, 5*time.Minute) made for the i-th test
WithTimeout(parent, i) == [parent |-> parent, id |-> "test " \o ToString(i)]

\* RunTests, line 173: the context tst.Run and the executor are given
ExecutorCtx(ctx, i) == WithTimeout(Background, i)

\* ctx.Done() is closed: the context timed out or its parent was cancelled
Done(ctx, cancelled) == ctx.id \in cancelled \/ ctx.parent \in cancelled

CancelInit ==
    /\ EngineIdle
    /\ output = [i |-> 1, execCtx |-> None, cancelled |-> {}, res |-> <<>>]
    /\ \E n \in 1..MaxTests :
          \E skip \in [1..n -> BOOLEAN], command \in [1..n -> Commands],
             assertions \in [1..n -> SuiteAssertions] :
             input = [i \in 1..n |-> TestSpec(i, skip[i], command[i], assertions[i])]

\* The caller of build or combine cancels its context
Caller_cancel ==
    /\ CallerCtx \notin output.cancelled
    /\ output' = [output EXCEPT !.cancelled = @ \cup {CallerCtx}]
    /\ UNCHANGED <<engine, input>>

\* RunTests, lines 166-174: the next test; a skipped test gives its result at once,
\* any other is handed to the executor under its own context
RunTests_next ==
    /\ output.execCtx = None
    /\ output.i <= Len(input)
    /\ IF input[output.i].Skip
       THEN output' = [output EXCEPT !.res = Append(@, Run(input[output.i]).res),
                                     !.i = @ + 1]
       ELSE output' = [output EXCEPT !.execCtx = Some(ExecutorCtx(CallerCtx, output.i))]
    /\ UNCHANGED <<engine, input>>

\* The five minutes of the test in progress are over
Test_timeout ==
    /\ output.execCtx # None
    /\ output.execCtx[1].id \notin output.cancelled
    /\ output' = [output EXCEPT !.cancelled = @ \cup {output.execCtx[1].id}]
    /\ UNCHANGED <<engine, input>>

\* The executor returns: the command has finished, or the context it ran under is done
Executor_returns ==
    /\ output.execCtx # None
    /\ \E interrupted \in {FALSE} \cup {Done(output.execCtx[1], output.cancelled)} :
          LET s == input[output.i]
              r == IF interrupted
                   THEN [Desc |-> s.Desc, Skipped |-> FALSE,
                         Error |-> Some(ErrResult("context canceled", "runtime")),
                         Failure |-> None, RunResult |-> None]
                   ELSE Run(s).res
          IN output' = [output EXCEPT !.res = Append(@, r), !.i = @ + 1,
                                      !.execCtx = None,
                                      !.cancelled = @ \ {output.execCtx[1].id}]
    /\ UNCHANGED <<engine, input>>

CancelNext == Caller_cancel \/ RunTests_next \/ Test_timeout \/ Executor_returns

CancelSpec == CancelInit /\ [][CancelNext]_vars

\* C35: whenever the caller's context is cancelled, the context under which a test
\* command in progress runs is cancelled too.
C35_CancelReachesTheTestCommand ==
    (output.execCtx # None /\ CallerCtx \in output.cancelled)
    => Done(output.execCtx[1], output.cancelled)

-----------------------------------------------------------------------------
(* The specification: one solver invocation of buildAsBase or buildImage *)

\* The solver is abstract: it sends input.statuses updates on ch, one at a time and
\* each only when the consumer receives it, then returns its response or an error and
\* closes ch; a solve call whose context is cancelled returns an error.

\* make(chan map[string]string, 1)
rchanCap == 1

\* A send on a channel without a buffer: it waits for a receiver
sendWaitsForReceiver(buf) == FALSE

\* A send on rchan completes at once when the buffer has room
CanSend(buf) == Len(buf) < rchanCap

SolveInit ==
    /\ EngineIdle
    /\ input \in [image : {"base", ImageTypeTest, ImageTypeFull},
                   statuses : 0..MaxStatuses, solveFails : BOOLEAN, consoleFails : BOOLEAN]
    /\ output = [main |-> "eg.Wait", solve |-> "running", display |-> "console",
                 sent |-> 0, chClosed |-> FALSE, rchan |-> <<>>, egErr |-> None,
                 ctxDone |-> FALSE, returned |-> None, read |-> FALSE]

\* errgroup: the first error a task returns is kept and cancels the group's context
Failed(o, err) ==
    [o EXCEPT !.egErr = IF @ = None THEN Some(err) ELSE @, !.ctxDone = TRUE]

\* The solver sends a status on ch and the progress consumer receives it
Solve_status ==
    /\ output.solve = "running"
    /\ output.sent < input.statuses
    /\ output.display = "reading"
    /\ output' = [output EXCEPT !.sent = @ + 1]
    /\ UNCHANGED <<engine, input>>

\* sess.Client.Solve returns: an error, which the task returns, or its response
Solve_returns ==
    /\ output.solve = "running"
    /\ \/ output.sent = input.statuses
       \/ output.ctxDone
    /\ output' = IF input.solveFails \/ output.sent < input.statuses
                 THEN [Failed(output, "solve failed") EXCEPT !.solve = "failed",
                                                             !.chClosed = TRUE]
                 ELSE [output EXCEPT !.solve = "rchan <- resp", !.chClosed = TRUE]
    /\ UNCHANGED <<engine, input>>

\* rchan <- resp.ExporterResponse: into the buffer, or without one to a waiting reader
Solve_respond ==
    /\ output.solve = "rchan <- resp"
    /\ IF CanSend(output.rchan)
       THEN output' = [output EXCEPT !.solve = "ok",
                                     !.rchan = Append(@, "containerimage.digest")]
       ELSE /\ output.main = "<-rchan"
            /\ output' = [output EXCEPT !.solve = "ok", !.main = "returned", !.read = TRUE,
                                        !.returned = Some("containerimage.digest")]
    /\ UNCHANGED <<engine, input>>

\* The progress consumer opens the console; an error ends the task before it reads ch
Display_console ==
    /\ output.display = "console"
    /\ output' = IF input.consoleFails
                 THEN [Failed(output, "console") EXCEPT !.display = "failed"]
                 ELSE [output EXCEPT !.display = "reading"]
    /\ UNCHANGED <<engine, input>>

\* progressui.DisplaySolveStatus returns once ch is closed
Display_returns ==
    /\ output.display = "reading"
    /\ output.chClosed
    /\ output' = [output EXCEPT !.display = "done"]
    /\ UNCHANGED <<engine, input>>

\* eg.Wait returns when both tasks have returned; an error is returned to the caller
eg_Wait ==
    /\ output.main = "eg.Wait"
    /\ output.solve \in {"ok", "failed"}
    /\ output.display \in {"done", "failed"}
    /\ output' = IF output.egErr # None
                 THEN [output EXCEPT !.main = "returned", !.returned = output.egErr,
                                     !.ctxDone = TRUE]
                 ELSE [output EXCEPT !.main = "<-rchan", !.ctxDone = TRUE]
    /\ UNCHANGED <<engine, input>>

\* resp := <-rchan, then the digested reference is returned
rchan_receive ==
    /\ output.main = "<-rchan"
    /\ output.rchan # <<>>
    /\ output' = [output EXCEPT !.main = "returned", !.read = TRUE,
                                !.returned = Some(Head(output.rchan)),
                                !.rchan = Tail(@)]
    /\ UNCHANGED <<engine, input>>

SolveNext ==
    \/ Solve_status
    \/ Solve_returns
    \/ Solve_respond
    \/ Display_console
    \/ Display_returns
    \/ eg_Wait
    \/ rchan_receive

SolveSpec == SolveInit /\ [][SolveNext]_vars

\* C36: control is past eg.Wait only when the solve task and the progress consumer have
\* both returned; at the read of rchan the response is there; when a task failed the
\* error is returned and rchan is not read; and as long as the call has not returned
\* some step can be taken.
C36_SolverTasksJoin ==
    /\ output.main # "eg.Wait"
       => output.solve \in {"ok", "failed"} /\ output.display \in {"done", "failed"}
    /\ output.main = "<-rchan" => output.rchan # <<>>
    /\ (output.main = "returned" /\ output.egErr # None)
       => output.returned = output.egErr /\ ~output.read
    /\ (output.main = "returned" /\ output.egErr = None)
       => output.read /\ output.returned = Some("containerimage.digest")
    /\ output.main # "returned" => ENABLED SolveNext

\* The solver succeeded after sending statuses and the response was read
C36_Witness ==
    /\ output.main = "returned"
    /\ output.read
    /\ output.sent = input.statuses
    /\ output.sent > 0

-----------------------------------------------------------------------------
(* The references passed on *)

\* C37: the base reference recorded in the session and given to the solver as
\* build-arg base, the test image reference given to the test runner and the full
\* image reference given to removeBaseLayer carry a digest.
C37_PassedReferencesAreDigested ==
    \A p \in Procs :
        /\ sess[p].baseRef # None => IsDigested(sess[p].baseRef[1])
        /\ pc[p] \in {"test_run", "removeBaseLayer"} => IsDigested(loc[p].tgt[1])

-----------------------------------------------------------------------------
(* The specification: ProjectChunk.hash called twice on one loaded chunk *)

\* sess.baseRef.String() at the two calls; None is the empty string of BaseRef
HashedBaseRefs == BaseRefs \cup {Some("target@sha256:rewritten")}

HashInit ==
    /\ InitCommon
    /\ project \in [chunks : {ChunkOrder}, kind : {[c \in ChunkNames |-> "frombase"]},
                    tests : [ChunkNames -> BOOLEAN], outcomes : {{TRUE}}, opts : {None},
                    picks : {{}}, env : {[n \in {"base"} \cup ChunkNames |-> <<>>]},
                    withNoTests : {{}}, envVars : {{}}, resolveErrs : {{}}, unstable : {FALSE}]
    /\ budget = [p \in Procs |-> [builds |-> 0, combines |-> 0, repeats |-> 0]]
    /\ input \in [chunk : ChunkNames,
                   calls : [1..2 -> [baseref : HashedBaseRefs, excludeTests : BOOLEAN]]]
    /\ output = [cachedHash |-> NoCachedHash, res |-> <<>>]

\* p.hash(baseref, excludeTests) on the chunk, whose cachedHash the call may set
Hash_call ==
    /\ Len(output.res) < Len(input.calls)
    /\ LET call == input.calls[Len(output.res) + 1]
       IN output' =
            [cachedHash |-> Memoized(output.cachedHash, input.chunk, call.baseref,
                                     call.excludeTests),
             res |-> Append(output.res, hash(output.cachedHash, input.chunk, call.baseref,
                                             call.excludeTests))]
    /\ UNCHANGED <<engine, input>>

HashNext == Hash_call

HashSpec == HashInit /\ [][HashNext]_vars

\* C38: two calls of hash on a chunk with the same excludeTests and different base
\* references answer different fingerprints.
C38_BaseRefChangesTheFingerprint ==
    \A i, j \in 1..Len(output.res) :
        (/\ input.calls[i].baseref # input.calls[j].baseref
         /\ input.calls[i].excludeTests = input.calls[j].excludeTests)
        => output.res[i] # output.res[j]

-----------------------------------------------------------------------------
(* Where Combine looks for the chunks *)

\* The tags under which a Build with the given chunked-without-hash setting pushes
\* the chunked image of chunk c
ChunkedTags(c, noHash) ==
    IF noHash THEN {TagKey(WithTag(SubRepo(c), <<"latest">>))}
    ELSE {k \in DOMAIN tags : /\ k[1] = MainRepo
                              /\ Len(k[2]) = 3 /\ k[2][1] = c /\ k[2][3] = ImageTypeChunked}

\* C39: after a Build that returned nil, a Combine of chunks of the project pulls every
\* pick from a tag under which the Build pushed the chunk's chunked image, and the
\* tag is there.
C39_CombineFindsWhatBuildPushed ==
    [][\A p \in Procs :
          (/\ pc[p] = "Combine_pull" /\ pc'[p] # pc[p]
           /\ prev[p].status = "ok"
           /\ \A i \in 1..Len(loc[p].picks) : loc[p].picks[i] \in ChunkNames)
          => LET crefs == PickRefs(cachedHash[p], sess[p], loc[p].picks)
             IN \A i \in 1..Len(crefs) :
                   /\ TagKey(crefs[i]) \in ChunkedTags(loc[p].picks[i], prev[p].noHash)
                   /\ TagKey(crefs[i]) \in DOMAIN tags]_vars

-----------------------------------------------------------------------------
(* The combination that was tested *)

\* C40: when Combine ran with tests and commits the manifest at dest, its layers are
\* the layers of the temporary combination the same call pushed and tested before.
C40_DestGetsTheTestedLayers ==
    [][\A p \in Procs :
          (/\ pc[p] = "Combine_pushManifest" /\ ~loc[p].temp
           /\ hist[p].cmb.returned /\ hist[p].cmb.temp /\ hist[p].cmb.err = NoErr
           /\ tags' # tags)
          => loc[p].chkmf[1].layers = hist[p].cmb.mf[1].layers]_vars

====
